---- MODULE Spec2Model ----
(***************************************************************************)
(* The zap settlement pipeline of pekka: the ledger (internal/db), the     *)
(* per-post decision pipeline (internal/bot, processEvent / tryZap /       *)
(* tryReact), one settlement attempt (internal/zap, ZapNote) and the       *)
(* wallet request/response call (internal/nwc, PayInvoice / sendRequest).  *)
(* The relay network, the remote signer, the payment endpoint and the      *)
(* remote wallet are the environment: every call to them may succeed or    *)
(* fail, and the wallet settles or rejects a published request on its own  *)
(* schedule.                                                               *)
(***************************************************************************)
EXTENDS Integers, FiniteSets, Sequences, TLC

\* ------------------------------------------------------------------ bounds
\* number of posts the subscription delivers in one run
MaxDeliveries == 3
\* the clock runs from 0 to MaxTime
MaxTime == 2
\* zap.amount ranges over 1..MaxAmount
MaxAmount == 2
\* budget.daily_limit ranges over 1..MaxLimit, budget.per_npub_limit over 0..MaxLimit
MaxLimit == 2
\* the wallet's balance at start, in sats
MaxBalance == 3
\* number of direct ledger calls in the ledger-only specification
MaxDbCalls == 4
\* signing session: wrapper calls each caller makes
MaxSessionCalls == 2
\* signing session: clients NewClient connects in one run, the first included
MaxClients == 3
\* lightning addresses are strings of 1..MaxAddrLen characters
MaxAddrLen == 3
\* the configuration lists 1..MaxRelays relays
MaxRelays == 3
\* PayInvoice is called at most MaxWalletCalls times in a run
MaxWalletCalls == 3

\* ------------------------------------------------------- program constants
\* length of one UTC day in clock units (24 * time.Hour, one unit = 12 hours)
DayLen == 2
\* event kind of a text note
KindTextNote == 1
\* tryZap / tryReact: attempts per delivery
MaxAttempts == 2
\* requestInvoice: millisatoshi per satoshi
MsatPerSat == 1000
\* sendRequest: `for range 3`
PublishTries == 3
\* the kinds of the wallet's request and response events
KindRequest == 23194
KindResponse == 23195

\* ------------------------------------------------------------- the universe
EventIds == {"e1", "e2", "e3"}
Authors == {"a1", "a2"}
NoEvent == "none"

\* the pubkey of each post
AuthorOf(e) == IF e = "e3" THEN "a2" ELSE "a1"
\* the created_at of each post
CreatedAtOf(e) == 0

Kinds == {KindTextNote, 7}
Times == 0..MaxTime
Days == 0..(MaxTime \div DayLen)

VARIABLES
    cfg,          \* the loaded configuration
    now,          \* time.Now(), in clock units
    ledger,       \* the rows of table zapped_events
    delivered,    \* posts delivered by the subscription so far
    pc,           \* position of processEvent
    cur,          \* the post processEvent is working on
    zpc,          \* position of the settlement task (tryZap / ZapNote)
    attempt,      \* tryZap's loop variable
    zapSuccess,   \* result of tryZap
    rpc,          \* position of the reaction task (tryReact / React)
    rattempt,     \* tryReact's loop variable
    reactSuccess, \* result of tryReact
    req,          \* the wallet request the running sendRequest waits on
    balance,      \* wallet: sats left
    paidCount,    \* wallet: payments settled, per post
    paidOn,       \* wallet: amount settled, per UTC day
    calls,        \* ZapNote, pay_invoice and React calls made for the current delivery
    report,       \* what processEvent printed for the last delivery
    markErr,      \* result of the last MarkZapped call
    dbCalls,      \* direct ledger calls (ledger-only specification)
    handle,       \* signing session: rc.client, the current handle
    made,         \* signing session: clients NewClient has connected so far
    sess,         \* signing session: the calls in progress, per caller
    botDone,      \* signing session: botCtx is cancelled
    ka,           \* signing session: the keepalive goroutine
    zn,           \* tryZap / ZapNote in detail: position, inputs and calls made
    stopped,      \* tryZap / ZapNote in detail: Stop has cancelled b.ctx
    rx,           \* React in detail: position, relays, publishes made
    nwc           \* wallet RPC in detail: PayInvoice / sendRequest and c.relay

vars == <<cfg, now, ledger, delivered, pc, cur, zpc, attempt, zapSuccess, rpc,
          rattempt, reactSuccess, req, balance, paidCount, paidOn, calls,
          report, markErr, dbCalls, handle, made, sess, botDone, ka,
          zn, stopped, rx, nwc>>

\* the signing session's state
sessVars == <<handle, made, sess, botDone, ka>>
\* the state of the components a pipeline step does not touch
\* the state of the detailed settlement attempt
znVars == <<zn, stopped>>
otherVars == <<sessVars, znVars, rx, nwc>>

\* --------------------------------------------------------------- the ledger
\* one row of zapped_events
Row(e, a, at, amt, created) ==
    [event_id |-> e, author_pubkey |-> a, zapped_at |-> at, amount |-> amt,
     event_created_at |-> created]

Rows == [event_id : EventIds, author_pubkey : Authors, zapped_at : Times,
         amount : 1..MaxAmount, event_created_at : {0}]

HasKey(l, e) == \E r \in l : r.event_id = e

\* faulty variant: the lookup compares the wrong column
IsZapped_WrongColumn(l, e) == \E r \in l : r.author_pubkey = e

\* faulty variant: a post the wallet has paid for counts as zapped, row or not
IsZapped_OrPaid(l, e) == HasKey(l, e) \/ paidCount[e] > 0

\* SELECT EXISTS(SELECT 1 FROM zapped_events WHERE event_id = ?)
IsZapped(l, e) == HasKey(l, e)

\* time.Now().UTC().Truncate(24 * time.Hour).Unix()
StartOfDay(t) == (t \div DayLen) * DayLen

RECURSIVE SumAmount(_)
\* SELECT SUM(amount), NULL (no row) read as 0
SumAmount(S) ==
    IF S = {} THEN 0
    ELSE LET r == CHOOSE x \in S : TRUE IN r.amount + SumAmount(S \ {r})

\* faulty variant: the total is taken over every row, whatever its day
GetTodayTotal_AllRows(l, t) == SumAmount(l)

\* SELECT SUM(amount) FROM zapped_events WHERE zapped_at >= today
GetTodayTotal(l, t) == SumAmount({r \in l : r.zapped_at >= StartOfDay(t)})

\* faulty variant: the author's total leaves out the rows written at midnight sharp
GetTodayTotalForAuthor_After(l, a, t) ==
    SumAmount({r \in l : r.author_pubkey = a /\ r.zapped_at > StartOfDay(t)})

\* SELECT SUM(amount) ... WHERE author_pubkey = ? AND zapped_at >= today
GetTodayTotalForAuthor(l, a, t) ==
    SumAmount({r \in l : r.author_pubkey = a /\ r.zapped_at >= StartOfDay(t)})

\* faulty variant: amount and event_created_at are bound the wrong way round
MarkZapped_SwappedColumns(l, e, a, amt, created, t) ==
    IF HasKey(l, e)
    THEN [err |-> "conflict", ledger |-> l]
    ELSE [err |-> "nil", ledger |-> l \cup {Row(e, a, t, created, amt)}]

\* faulty variant: a table without the primary key: every insert succeeds
MarkZapped_NoKey(l, e, a, amt, created, t) ==
    [err |-> "nil", ledger |-> l \cup {Row(e, a, t, amt, created)}]

\* INSERT INTO zapped_events: event_id is the PRIMARY KEY, so the insert of an
\* existing id fails and changes nothing
MarkZapped(l, e, a, amt, created, t) ==
    IF HasKey(l, e)
    THEN [err |-> "conflict", ledger |-> l]
    ELSE [err |-> "nil", ledger |-> l \cup {Row(e, a, t, amt, created)}]

\* ------------------------------------------------------------ configuration
\* Config.Validate: zap.amount > 0 and budget.daily_limit > 0; per_npub_limit
\* is not checked
Validate(c) == c.amount > 0 /\ c.dailyLimit > 0

Configs == {c \in [amount : 0..MaxAmount, dailyLimit : 0..MaxLimit,
                   perNpubLimit : 0..MaxLimit, reaction : BOOLEAN] : Validate(c)}

\* faulty variant: the test forgets the amount about to be spent
ExceedsLimit_NoAmount(total, amount, limit) == total > limit

\* faulty variant: the test is off by one: a post that fills the limit is refused
ExceedsLimit_OffByOne(total, amount, limit) == total + amount >= limit

\* the budget tests of processEvent: total + amount > limit
ExceedsLimit(total, amount, limit) == total + amount > limit

\* calls of the current delivery: ZapNote runs, pay_invoice requests, React runs
NoCalls == [zapNote |-> 0, pay |-> 0, react |-> 0]
NoReport == [zap |-> "none", react |-> "none"]

Bump(c, f) == [c EXCEPT ![f] = @ + 1]

\* ------------------------------------------------------ the signing session
\* the goroutines that call the session at the same time: the settlement task
\* (createZapRequest) and the reaction task (React)
Callers == {"zapTask", "reactTask"}
\* the four wrapped calls of ReconnectingClient
SessionOps == {"SignEvent", "GetPublicKey", "DecryptNIP44", "DecryptNIP04"}
\* how a call on a bunker client ends: nil, context.Canceled,
\* context.DeadlineExceeded, or an error of the remote signer
CallOutcomes == {"nil", "canceled", "deadline", "rejected"}

\* an error value and the call that produced it
ErrOf(kind, from) == [kind |-> kind, from |-> from]
NoErr == ErrOf("nil", "none")

\* faulty variant: every error counts as a session error
isSessionError_Any(kind) == kind # "nil"

\* errors.Is(err, context.Canceled) || errors.Is(err, context.DeadlineExceeded)
isSessionError(kind) == kind \in {"canceled", "deadline"}

\* a caller that is not inside a wrapper call
IdleCaller ==
    [pc |-> "idle", op |-> "none", first |-> 0, err |-> NoErr,
     ret |-> NoErr, reconnects |-> 0, calls |-> 0, newc |-> 0, installed |-> 0,
     retriedOn |-> 0, n |-> 0]

\* NewReconnectingClient: the first client is connected and installed, the
\* keepalive goroutine waits for its ticker
SessInit ==
    /\ handle = 1
    /\ made = 1
    /\ sess = [c \in Callers |-> IdleCaller]
    /\ botDone = FALSE
    /\ ka = [pc |-> "wait", newc |-> 0]

\* ------------------------------------------ the settlement attempt's parts
\* strings are sequences of characters; the characters of an address
AddrChars == {"u", "d", "@"}
Addresses == UNION {[1..n -> AddrChars] : n \in 1..MaxAddrLen}

\* index of the first "@" of s, 0 when there is none
FirstAt(s) ==
    IF \E i \in DOMAIN s : s[i] = "@"
    THEN CHOOSE i \in DOMAIN s : s[i] = "@" /\ \A j \in 1..(i - 1) : s[j] # "@"
    ELSE 0

RECURSIVE Split(_)
\* strings.Split(address, "@")
Split(s) ==
    IF FirstAt(s) = 0 THEN <<s>>
    ELSE <<SubSeq(s, 1, FirstAt(s) - 1)>> \o Split(SubSeq(s, FirstAt(s) + 1, Len(s)))

\* faulty variant: any address with an "@" is converted
lightningAddressToLNURL_AtLeastTwo(address) ==
    IF Len(Split(address)) < 2 THEN <<>>
    ELSE <<"https://">> \o Split(address)[2] \o <<"/.well-known/lnurlp/">>
            \o Split(address)[1]

\* lightningAddressToLNURL: "" unless the split gives two parts, else
\* fmt.Sprintf("https://%s/.well-known/lnurlp/%s", parts[1], parts[0])
lightningAddressToLNURL(address) ==
    IF Len(Split(address)) # 2 THEN <<>>
    ELSE <<"https://">> \o Split(address)[2] \o <<"/.well-known/lnurlp/">>
            \o Split(address)[1]

\* the minSendable / maxSendable values an endpoint declares, in millisatoshi
Sendables == {(a * MsatPerSat) + k : a \in 1..MaxAmount, k \in {-1, 0, 1}}

\* faulty variant: the bounds are taken as exclusive
AmountOutOfBounds_Exclusive(ms, minS, maxS) == ms <= minS \/ ms >= maxS

\* requestInvoice: amountMillisats < metadata.MinSendable ||
\* amountMillisats > metadata.MaxSendable
AmountOutOfBounds(ms, minS, maxS) == ms < minS \/ ms > maxS

\* the values of the "tag" field of an endpoint's metadata
Tags == {"payRequest", "withdrawRequest"}

\* fetchLNURLMetadata: metadata.Tag != "payRequest" is an error
TagValid(tag) == tag = "payRequest"

\* the callback's JSON body: its status, reason and pr fields
Statuses == {"", "OK", "ERROR"}
Reasons == {"", "no route"}
Invoices == {"", "lnbc1"}
\* no callback body was read
NoBody == [status |-> "none", reason |-> "", pr |-> ""]

\* faulty variant: an empty payable string is not refused
FetchInvoiceResult_NoEmptyCheck(status, reason, pr) ==
    IF status = "ERROR" THEN [err |-> "lnurlError", reason |-> reason, pr |-> ""]
    ELSE [err |-> "nil", reason |-> "", pr |-> pr]

\* faulty variant: a body with a payable string is taken whatever its status
FetchInvoiceResult_InvoiceFirst(status, reason, pr) ==
    IF pr # "" THEN [err |-> "nil", reason |-> "", pr |-> pr]
    ELSE IF status = "ERROR" THEN [err |-> "lnurlError", reason |-> reason, pr |-> ""]
    ELSE [err |-> "noInvoice", reason |-> "", pr |-> ""]

\* fetchInvoice after the body was parsed: Status == "ERROR" gives
\* "LNURL error: <reason>", then PR == "" gives "no invoice in response",
\* else the invoice
FetchInvoiceResult(status, reason, pr) ==
    IF status = "ERROR" THEN [err |-> "lnurlError", reason |-> reason, pr |-> ""]
    ELSE IF pr = "" THEN [err |-> "noInvoice", reason |-> "", pr |-> ""]
    ELSE [err |-> "nil", reason |-> "", pr |-> pr]

\* tryZap has not been called
ZnIdle ==
    [pc |-> "idle", attempt |-> 0, amount |-> 0, address |-> <<>>, lnurl |-> <<>>,
     minS |-> 0, maxS |-> 0, err |-> [kind |-> "nil", amount |-> 0, minS |-> 0, maxS |-> 0], meta |-> 0, callback |-> 0, pay |-> 0,
     result |-> "none", zapRequest |-> "", tag |-> "", body |-> NoBody,
     reason |-> "", invoice |-> "",
     signedN |-> 0, issued |-> 0, art |-> 0, inv |-> 0, passed |-> <<>>]

ZnInit ==
    /\ zn = ZnIdle
    /\ stopped = FALSE

\* ------------------------------------------------------- React's parts
\* how a relay behaves towards one React call: it accepts the event, rejects
\* it, refuses the connection at once, or does not answer before the call's
\* context is done
RelayBehaviours == {"accepts", "rejects", "unreachable", "hangs"}

\* React has not been called
RxIdle ==
    [pc |-> "idle", relays |-> <<>>, i |-> 0, publishedCount |-> 0, sent |-> {},
     ctx |-> "live", e |-> NoEvent, result |-> "none"]

\* --------------------------------------------------- the wallet RPC's parts
\* how a Publish on c.relay ends: nil, an error whose text contains
\* "connection closed", or another error (the relay's refusal, the context)
PublishOutcomes == {"ok", "closed", "other"}

\* what the content of a response event turns out to be: not decryptable with
\* the shared secret, decryptable but not a JSON response, a response with a
\* null error, or a response with an error
Contents == {"garbled", "notJson", "paid", "refusedBalance", "refusedQuota"}

\* the events the wallet's relay holds: responses and requests, each
\* referencing a request id in its "e" tag
ResponseEvents == [kind : {KindRequest, KindResponse}, e : 1..MaxWalletCalls,
                   content : Contents]
NoResponseEvent == [kind |-> 0, e |-> 0, content |-> "none"]

\* sendRequest: the filter of the response subscription
ResponseFilter(id) == [kinds |-> {KindResponse}, e |-> {id}]

\* the events a subscription with filter f delivers on sub.Events
FilterMatches(f, ev) == ev.kind \in f.kinds /\ ev.e \in f.e

\* nip04.Decrypt(responseEvent.Content, sharedSecret) returns no error
DecryptOk(content) == content # "garbled"

\* json.Unmarshal([]byte(decrypted), &response) returns no error
UnmarshalOk(text) == text # "notJson"

\* Response.Error: nil, or the code and the message
ResponseError(isNil, code, message) == [isNil |-> isNil, code |-> code, message |-> message]
NilResponseError == ResponseError(TRUE, "", "")

\* the error field of the parsed response
ErrorField(text) ==
    CASE text = "refusedBalance" -> ResponseError(FALSE, "INSUFFICIENT_BALANCE", "low")
      [] text = "refusedQuota" -> ResponseError(FALSE, "QUOTA_EXCEEDED", "quota")
      [] OTHER -> NilResponseError

\* what PayInvoice returns: nil, sendRequest's error, or the payment error
\* with the wallet's code and message
NwcRet(kind, code, message) == [kind |-> kind, code |-> code, message |-> message]
NwcNil == NwcRet("nil", "", "")

\* faulty variant: the response's error field is not looked at
PayInvoiceResult_IgnoresError(sendErr, respErr) ==
    IF sendErr # "nil" THEN NwcRet(sendErr, "", "") ELSE NwcNil

\* PayInvoice after sendRequest returned: `if err != nil { return err }`,
\* `if response.Error != nil { return fmt.Errorf("payment failed: %s - %s", ...) }`
PayInvoiceResult(sendErr, respErr) ==
    IF sendErr # "nil" THEN NwcRet(sendErr, "", "")
    ELSE IF ~respErr.isNil THEN NwcRet("paymentFailed", respErr.code, respErr.message)
    ELSE NwcNil

\* sendRequest: strings.Contains(err.Error(), "connection closed")
RetryPublish(out) == out = "closed"

\* ZapNote returns PayInvoice's error or nil, and tryZap takes the attempt as
\* successful when ZapNote's error is nil
AttemptAfterPay(ret) == IF ret.kind = "nil" THEN "succeeded" ELSE "failed"

\* Connect has connected c.relay, no PayInvoice was called
NwcIdle ==
    [pc |-> "idle", id |-> 0, publishes |-> 0, reconnects |-> 0, lastPub |-> "none",
     relay |-> "connected", got |-> NoResponseEvent, sendErr |-> "nil",
     ret |-> NwcNil, attempt |-> "none", n |-> 0, early |-> "none"]

\* --------------------------------------------------------------------- Init
Init ==
    /\ cfg \in Configs
    /\ now = 0
    /\ ledger = {}
    /\ delivered = 0
    /\ pc = "idle"
    /\ cur = NoEvent
    /\ zpc = "zNone"
    /\ attempt = 0
    /\ zapSuccess = FALSE
    /\ rpc = "rNone"
    /\ rattempt = 0
    /\ reactSuccess = FALSE
    /\ req = "none"
    /\ balance = MaxBalance
    /\ paidCount = [e \in EventIds |-> 0]
    /\ paidOn = [d \in Days |-> 0]
    /\ calls = NoCalls
    /\ report = NoReport
    /\ markErr = "nil"
    /\ dbCalls = 0
    /\ SessInit
    /\ ZnInit
    /\ rx = RxIdle
    /\ nwc = NwcIdle

walletVars == <<req, balance, paidCount, paidOn>>
zapVars == <<zpc, attempt, zapSuccess>>
reactVars == <<rpc, rattempt, reactSuccess>>
\* the state of the pipeline and the ledger
pipelineVars == <<cfg, now, ledger, delivered, pc, cur, zapVars, reactVars, walletVars,
                  calls, report, markErr, dbCalls>>
\* everything but the signing session
sessRest == <<pipelineVars, znVars, rx, nwc>>
\* everything but the detailed settlement attempt
znRest == <<pipelineVars, sessVars, rx, nwc>>
\* everything but the detailed React call
rxRest == <<pipelineVars, sessVars, znVars, nwc>>
\* everything but the detailed wallet RPC
nwcRest == <<pipelineVars, sessVars, znVars, rx>>

\* the clock advances
Tick ==
    /\ now < MaxTime
    /\ now' = now + 1
    /\ UNCHANGED <<cfg, ledger, delivered, pc, cur, zapVars, reactVars, walletVars,
                   calls, report, markErr, dbCalls, otherVars>>

\* ------------------------------------------------------------- processEvent
\* faulty variant: processEvent runs in a goroutine of its own and the loop
\* takes the next post at once
IntakeReady_Always(p) == TRUE

\* handleEvents: `for event := range ... { b.processEvent(event) }`: the loop
\* takes the next post when processEvent has returned
IntakeReady(p) == p = "idle"

\* handleEvents takes the next post off the subscription and calls
\* processEvent; a post that is not a text note is dropped at once
Deliver(e, kind) ==
    /\ IntakeReady(pc)
    /\ delivered < MaxDeliveries
    /\ delivered' = delivered + 1
    /\ cur' = e
    /\ calls' = NoCalls
    /\ IF kind # KindTextNote
       THEN /\ pc' = "idle"
            /\ report' = [zap |-> "ignored", react |-> "none"]
       ELSE /\ pc' = "checkZapped"
            /\ report' = NoReport
    /\ zpc' = "zNone" /\ attempt' = 0 /\ zapSuccess' = FALSE
    /\ rpc' = "rNone" /\ rattempt' = 0 /\ reactSuccess' = FALSE
    /\ markErr' = "nil"
    /\ UNCHANGED <<cfg, now, ledger, walletVars, dbCalls, otherVars>>

\* faulty variant: the error of a ledger check is dropped and the value
\* returned with it is used
LedgerErr_Ignored(dbOk) == FALSE

\* `if err != nil { ...; return }` after each ledger check
LedgerErr(dbOk) == ~dbOk

\* b.db.IsZapped(event.ID): an error or an existing row ends the processing
CheckZapped(dbOk) ==
    /\ pc = "checkZapped"
    /\ IF LedgerErr(dbOk)
       THEN pc' = "idle" /\ report' = [report EXCEPT !.zap = "dberror"]
       ELSE IF IsZapped(ledger, cur)
       THEN pc' = "idle" /\ report' = [report EXCEPT !.zap = "duplicate"]
       ELSE pc' = "checkDaily" /\ UNCHANGED report
    /\ UNCHANGED <<cfg, now, ledger, delivered, cur, zapVars, reactVars, walletVars,
                   calls, markErr, dbCalls, otherVars>>

\* b.db.GetTodayTotal() and the daily budget test
CheckDaily(dbOk) ==
    /\ pc = "checkDaily"
    /\ IF LedgerErr(dbOk)
       THEN pc' = "idle" /\ report' = [report EXCEPT !.zap = "dberror"]
       ELSE IF ExceedsLimit(GetTodayTotal(ledger, now), cfg.amount, cfg.dailyLimit)
       THEN pc' = "idle" /\ report' = [report EXCEPT !.zap = "budget"]
       ELSE pc' = "checkAuthor" /\ UNCHANGED report
    /\ UNCHANGED <<cfg, now, ledger, delivered, cur, zapVars, reactVars, walletVars,
                   calls, markErr, dbCalls, otherVars>>

\* faulty variant: the reaction task is never started
ReactStarts_Never(enabled) == FALSE

\* `if b.config.Reaction.Enabled { wg.Add(1); go func() { ... tryReact ... }() }`
ReactStarts(enabled) == enabled

\* b.db.GetTodayTotalForAuthor(event.PubKey) and the per-author budget test;
\* on pass the settlement task is started, and the reaction task if enabled
CheckAuthor(dbOk) ==
    /\ pc = "checkAuthor"
    /\ IF LedgerErr(dbOk)
       THEN /\ pc' = "idle" /\ report' = [report EXCEPT !.zap = "dberror"]
            /\ UNCHANGED <<zapVars, reactVars>>
       ELSE IF ExceedsLimit(GetTodayTotalForAuthor(ledger, AuthorOf(cur), now),
                            cfg.amount, cfg.perNpubLimit)
       THEN /\ pc' = "idle" /\ report' = [report EXCEPT !.zap = "budget"]
            /\ UNCHANGED <<zapVars, reactVars>>
       ELSE /\ pc' = "wait"
            /\ zpc' = "zAddr" /\ attempt' = 1
            /\ IF ReactStarts(cfg.reaction)
               THEN rpc' = "rReact" /\ rattempt' = 1
               ELSE UNCHANGED <<rpc, rattempt>>
            /\ UNCHANGED <<report, zapSuccess, reactSuccess>>
    /\ UNCHANGED <<cfg, now, ledger, delivered, cur, walletVars, calls, markErr, dbCalls, otherVars>>

\* ---------------------------------------------------- tryZap and ZapNote
\* faulty variant: the retry loop runs once too often
ZapAttemptFailed_ExtraRetry ==
    IF attempt <= MaxAttempts
    THEN zpc' = "zAddr" /\ attempt' = attempt + 1 /\ UNCHANGED zapSuccess
    ELSE zpc' = "zDone" /\ zapSuccess' = FALSE /\ UNCHANGED attempt

\* tryZap after a failed ZapNote: a second attempt after the first failure,
\* false after the second
ZapAttemptFailed ==
    IF attempt < MaxAttempts
    THEN zpc' = "zAddr" /\ attempt' = attempt + 1 /\ UNCHANGED zapSuccess
    ELSE zpc' = "zDone" /\ zapSuccess' = FALSE /\ UNCHANGED attempt

\* ZapNote starts: getLightningAddress (profile lookup)
ZAddr(ok) ==
    /\ zpc = "zAddr"
    /\ calls' = Bump(calls, "zapNote")
    /\ IF ok THEN zpc' = "zSign" /\ UNCHANGED <<attempt, zapSuccess>>
       ELSE ZapAttemptFailed
    /\ UNCHANGED <<cfg, now, ledger, delivered, pc, cur, reactVars, walletVars,
                   report, markErr, dbCalls, otherVars>>

\* createZapRequest: GetPublicKey and SignEvent on the signing session
ZSign(ok) ==
    /\ zpc = "zSign"
    /\ UNCHANGED calls
    /\ IF ok THEN zpc' = "zInvoice" /\ UNCHANGED <<attempt, zapSuccess>>
       ELSE ZapAttemptFailed
    /\ UNCHANGED <<cfg, now, ledger, delivered, pc, cur, reactVars, walletVars,
                   report, markErr, dbCalls, otherVars>>

\* lightningAddressToLNURL and requestInvoice (metadata, bounds, callback)
ZInvoice(ok) ==
    /\ zpc = "zInvoice"
    /\ UNCHANGED calls
    /\ IF ok THEN zpc' = "zPay" /\ UNCHANGED <<attempt, zapSuccess>>
       ELSE ZapAttemptFailed
    /\ UNCHANGED <<cfg, now, ledger, delivered, pc, cur, reactVars, walletVars,
                   report, markErr, dbCalls, otherVars>>

\* the wallet settles the invoice of a request: it pays amt sats for post e
Settle(e, amt) ==
    /\ balance >= amt
    /\ balance' = balance - amt
    /\ paidCount' = [paidCount EXCEPT ![e] = @ + 1]
    /\ paidOn' = [paidOn EXCEPT ![now \div DayLen] = @ + amt]

\* PayInvoice -> sendRequest: the pay_invoice request is published to the
\* wallet's relay; a request whose publish failed does not reach the wallet
ZPay(published) ==
    /\ zpc = "zPay"
    /\ calls' = Bump(calls, "pay")
    /\ IF published
       THEN req' = "published" /\ zpc' = "zAwait" /\ UNCHANGED <<attempt, zapSuccess>>
       ELSE ZapAttemptFailed /\ UNCHANGED req
    /\ UNCHANGED <<cfg, now, ledger, delivered, pc, cur, reactVars, balance, paidCount,
                   paidOn, report, markErr, dbCalls, otherVars>>

\* sendRequest receives the response event; PayInvoice fails on a response
\* with an error field
ZResponse ==
    /\ zpc = "zAwait"
    /\ req \in {"paid", "rejected"}
    /\ req' = "none"
    /\ IF req = "paid"
       THEN zpc' = "zDone" /\ zapSuccess' = TRUE /\ UNCHANGED attempt
       ELSE ZapAttemptFailed
    /\ UNCHANGED <<cfg, now, ledger, delivered, pc, cur, reactVars, balance, paidCount,
                   paidOn, calls, report, markErr, dbCalls, otherVars>>

\* sendRequest gives up: responseCtx (or the attempt's context) is done. The
\* response was lost or was not sent in time; a request the wallet has not
\* decided on by then is paid late, rejected or lost, with nobody waiting.
ZTimeout(latePay) ==
    /\ zpc = "zAwait"
    /\ req' = "none"
    /\ IF req = "published" /\ latePay THEN Settle(cur, cfg.amount)
       ELSE UNCHANGED <<balance, paidCount, paidOn>>
    /\ ZapAttemptFailed
    /\ UNCHANGED <<cfg, now, ledger, delivered, pc, cur, reactVars,
                   calls, report, markErr, dbCalls, otherVars>>

\* ------------------------------------------------------------- the wallet
\* the wallet pays the invoice of the request the client waits on
WalletSettle ==
    /\ req = "published"
    /\ req' = "paid"
    /\ Settle(cur, cfg.amount)
    /\ UNCHANGED <<cfg, now, ledger, delivered, pc, cur, zapVars, reactVars,
                   calls, report, markErr, dbCalls, otherVars>>

\* the wallet answers with an error and pays nothing
WalletReject ==
    /\ req = "published"
    /\ req' = "rejected"
    /\ UNCHANGED <<cfg, now, ledger, delivered, pc, cur, zapVars, reactVars, balance,
                   paidCount, paidOn, calls, report, markErr, dbCalls, otherVars>>

\* ---------------------------------------------------- tryReact and React
\* tryReact after a failed React
ReactAttemptFailed ==
    IF rattempt < MaxAttempts
    THEN rpc' = "rReact" /\ rattempt' = rattempt + 1 /\ UNCHANGED reactSuccess
    ELSE rpc' = "rDone" /\ reactSuccess' = FALSE /\ UNCHANGED rattempt

\* one React call: sign the reaction on the signing session and publish it
\* to the relays; ok when it was signed and at least one relay accepted it
React(ok) ==
    /\ rpc = "rReact"
    /\ calls' = Bump(calls, "react")
    /\ IF ok THEN rpc' = "rDone" /\ reactSuccess' = TRUE /\ UNCHANGED rattempt
       ELSE ReactAttemptFailed
    /\ UNCHANGED <<cfg, now, ledger, delivered, pc, cur, zapVars, walletVars,
                   report, markErr, dbCalls, otherVars>>

\* ------------------------------------------- processEvent after wg.Wait()
\* faulty variant: the post is recorded whatever the tasks returned
LedgerWriteDue_Always(zs, rs) == TRUE

\* faulty variant: the ledger write is made when either task succeeded
LedgerWriteDue_Either(zs, rs) == zs \/ rs

\* faulty variant: the ledger write is made only when both tasks succeeded
LedgerWriteDue_Both(zs, rs) == zs /\ rs

\* `if zapSuccess`: the ledger write depends on the settlement result alone
LedgerWriteDue(zs, rs) == zs

\* faulty variant: the wait is over when the settlement task is done
WaitDone_ZapOnly(z, r) == z = "zDone"

\* wg.Wait(): every task that was started has called wg.Done()
WaitDone(z, r) == z = "zDone" /\ r \in {"rNone", "rDone"}

\* faulty variant: a failed reaction turns the settlement's report into a failure
ZapReport_NeedsReaction(zs, rs, enabled) ==
    IF zs /\ (~enabled \/ rs) THEN "settled" ELSE "failed"

\* `if zapSuccess { "Zapped successfully!" } else { "Zap failed after retry." }`
ZapReport(zs, rs, enabled) == IF zs THEN "settled" ELSE "failed"

\* `if b.config.Reaction.Enabled { if reactSuccess {...} else {...} }`
ReactReport(rs, enabled) ==
    IF ~enabled THEN "none" ELSE IF rs THEN "ok" ELSE "failed"

\* both tasks are done: the ledger write on zapSuccess, and the reports
Finish(dbOk) ==
    /\ pc = "wait"
    /\ WaitDone(zpc, rpc)
    /\ pc' = "idle"
    /\ IF LedgerWriteDue(zapSuccess, reactSuccess)
       THEN LET m == MarkZapped(ledger, cur, AuthorOf(cur), cfg.amount,
                                CreatedAtOf(cur), now)
            IN  IF dbOk
                THEN ledger' = m.ledger /\ markErr' = m.err
                ELSE ledger' = ledger /\ markErr' = "io"
       ELSE UNCHANGED <<ledger, markErr>>
    /\ report' = [zap |-> ZapReport(zapSuccess, reactSuccess, cfg.reaction),
                  react |-> ReactReport(reactSuccess, cfg.reaction)]
    /\ UNCHANGED <<cfg, now, delivered, cur, zapVars, reactVars, walletVars, calls,
                   dbCalls, otherVars>>

Next ==
    \/ Tick
    \/ \E e \in EventIds, k \in Kinds : Deliver(e, k)
    \/ \E ok \in BOOLEAN : CheckZapped(ok)
    \/ \E ok \in BOOLEAN : CheckDaily(ok)
    \/ \E ok \in BOOLEAN : CheckAuthor(ok)
    \/ \E ok \in BOOLEAN : ZAddr(ok)
    \/ \E ok \in BOOLEAN : ZSign(ok)
    \/ \E ok \in BOOLEAN : ZInvoice(ok)
    \/ \E p \in BOOLEAN : ZPay(p)
    \/ ZResponse
    \/ \E late \in BOOLEAN : ZTimeout(late)
    \/ WalletSettle
    \/ WalletReject
    \/ \E ok \in BOOLEAN : React(ok)
    \/ \E ok \in BOOLEAN : Finish(ok)

Spec == Init /\ [][Next]_vars

\* ------------------------------------------------ the ledger on its own
\* The ledger called directly, by any number of callers in any order: every
\* call is one SQL statement, which SQLite runs atomically.
DbMarkZapped(e, a, amt) ==
    /\ dbCalls < MaxDbCalls
    /\ dbCalls' = dbCalls + 1
    /\ cur' = e
    /\ LET m == MarkZapped(ledger, e, a, amt, CreatedAtOf(e), now)
       IN  ledger' = m.ledger /\ markErr' = m.err
    /\ UNCHANGED <<cfg, now, delivered, pc, zapVars, reactVars, walletVars, calls, report,
                   otherVars>>

InitLedger ==
    /\ Init
    /\ cfg = [amount |-> 1, dailyLimit |-> 1, perNpubLimit |-> 0, reaction |-> FALSE]

NextLedger ==
    \/ Tick
    \/ \E e \in EventIds, a \in Authors, amt \in 1..MaxAmount : DbMarkZapped(e, a, amt)

SpecLedger == InitLedger /\ [][NextLedger]_vars

\* --------------------------------------- the reconnecting signing session
\* ReconnectingClient (internal/bunker/reconnecting.go) on its own: its callers
\* run in their own goroutines, next to the keepalive goroutine. The bunker
\* clients and the remote signer are the environment: a call on a client ends
\* with one of CallOutcomes, NewClient connects or fails.

\* faulty variant: a retried call that fails with a session error reconnects again
AfterRetry_Loop(kind) == IF isSessionError(kind) THEN "newClient" ELSE "idle"

\* `return rc.getClient().SignEvent(ctx, event)`: whatever the retried call
\* gives is returned
AfterRetry(kind) == "idle"

\* faulty variant: a failed reconnect returns the reconnect's error
ReconnectFailedReturn_ReconnErr(err) == ErrOf("connect", "reconnect")

\* `if reconnErr := rc.reconnect(); reconnErr != nil { return err }`
ReconnectFailedReturn(err) == err

\* faulty variant: the newest client made is handed out, swapped in or not
getClient_Newest == made

\* getClient: rc.mu.RLock(); defer rc.mu.RUnlock(); return rc.client
getClient == handle

\* the wrapper returns r to caller c
Returned(c, r) == [IdleCaller EXCEPT !.ret = r, !.n = sess[c].n + 1]

\* a caller enters one of the four wrappers: rc.getClient() takes the handle
\* under the read lock and the call on it starts
SessCall(c, op) ==
    /\ sess[c].pc = "idle"
    /\ sess[c].n < MaxSessionCalls
    /\ sess' = [sess EXCEPT ![c] =
                   [IdleCaller EXCEPT !.pc = "call1", !.op = op, !.first = getClient,
                                      !.n = sess[c].n]]
    /\ UNCHANGED <<handle, made, botDone, ka, sessRest>>

\* the first call on the handle ends; a session error leads to reconnect(),
\* anything else (nil or another error) is returned as it is
SessFirstReturns(c, out) ==
    /\ sess[c].pc = "call1"
    /\ sess' = [sess EXCEPT ![c] =
                   IF out # "nil" /\ isSessionError(out)
                   THEN [@ EXCEPT !.pc = "newClient", !.calls = @ + 1,
                                  !.err = ErrOf(out, "call1")]
                   ELSE Returned(c, IF out = "nil" THEN NoErr ELSE ErrOf(out, "call1"))]
    /\ UNCHANGED <<handle, made, botDone, ka, sessRest>>

\* reconnect(): NewClient(rc.botCtx, ...) connects a new client or fails; on
\* failure the wrapper returns the error of the first call
SessNewClient(c, ok) ==
    /\ sess[c].pc = "newClient"
    /\ IF ok
       THEN /\ made < MaxClients
            /\ made' = made + 1
            /\ sess' = [sess EXCEPT ![c] =
                           [@ EXCEPT !.pc = "swap", !.reconnects = @ + 1,
                                     !.newc = made + 1]]
       ELSE /\ made' = made
            /\ sess' = [sess EXCEPT ![c] =
                           Returned(c, ReconnectFailedReturn(sess[c].err))]
    /\ UNCHANGED <<handle, botDone, ka, sessRest>>

\* reconnect(): rc.mu.Lock(); rc.client = client; rc.mu.Unlock()
SessSwap(c) ==
    /\ sess[c].pc = "swap"
    /\ handle' = sess[c].newc
    /\ sess' = [sess EXCEPT ![c] = [@ EXCEPT !.pc = "getClient", !.installed = sess[c].newc]]
    /\ UNCHANGED <<made, botDone, ka, sessRest>>

\* the retry: rc.getClient() reads the handle again and the call on it starts
SessGetClient(c) ==
    /\ sess[c].pc = "getClient"
    /\ sess' = [sess EXCEPT ![c] =
                   [@ EXCEPT !.pc = "call2", !.retriedOn = getClient]]
    /\ UNCHANGED <<handle, made, botDone, ka, sessRest>>

\* the retried call ends and its result is returned
SessRetryReturns(c, out) ==
    /\ sess[c].pc = "call2"
    /\ sess' = [sess EXCEPT ![c] =
                   IF AfterRetry(out) = "idle"
                   THEN Returned(c, IF out = "nil" THEN NoErr ELSE ErrOf(out, "call2"))
                   ELSE [@ EXCEPT !.pc = AfterRetry(out), !.calls = @ + 1]]
    /\ UNCHANGED <<handle, made, botDone, ka, sessRest>>

\* startKeepalive: the select takes the ticker's case (when botCtx is done
\* too, select may still take it)
KeepaliveTick ==
    /\ ka.pc = "wait"
    /\ ka' = [ka EXCEPT !.pc = "newClient"]
    /\ UNCHANGED <<handle, made, sess, botDone, sessRest>>

\* the keepalive's reconnect(): NewClient; its error is dropped
KeepaliveNewClient(ok) ==
    /\ ka.pc = "newClient"
    /\ IF ok
       THEN /\ made < MaxClients
            /\ made' = made + 1
            /\ ka' = [ka EXCEPT !.pc = "swap", !.newc = made + 1]
       ELSE /\ made' = made
            /\ ka' = [ka EXCEPT !.pc = "wait"]
    /\ UNCHANGED <<handle, sess, botDone, sessRest>>

\* the keepalive's reconnect(): the swap under the write lock
KeepaliveSwap ==
    /\ ka.pc = "swap"
    /\ handle' = ka.newc
    /\ ka' = [ka EXCEPT !.pc = "wait", !.newc = 0]
    /\ UNCHANGED <<made, sess, botDone, sessRest>>

\* startKeepalive: the select takes <-rc.botCtx.Done() and the goroutine ends
KeepaliveStop ==
    /\ ka.pc = "wait"
    /\ botDone
    /\ ka' = [ka EXCEPT !.pc = "stopped"]
    /\ UNCHANGED <<handle, made, sess, botDone, sessRest>>

\* the bot's context is cancelled
SessShutdown ==
    /\ ~botDone
    /\ botDone' = TRUE
    /\ UNCHANGED <<handle, made, sess, ka, sessRest>>

InitSession ==
    /\ Init
    /\ cfg = [amount |-> 1, dailyLimit |-> 1, perNpubLimit |-> 0, reaction |-> FALSE]

NextSession ==
    \/ \E c \in Callers, op \in SessionOps : SessCall(c, op)
    \/ \E c \in Callers, out \in CallOutcomes : SessFirstReturns(c, out)
    \/ \E c \in Callers, ok \in BOOLEAN : SessNewClient(c, ok)
    \/ \E c \in Callers : SessSwap(c)
    \/ \E c \in Callers : SessGetClient(c)
    \/ \E c \in Callers, out \in CallOutcomes : SessRetryReturns(c, out)
    \/ KeepaliveTick
    \/ \E ok \in BOOLEAN : KeepaliveNewClient(ok)
    \/ KeepaliveSwap
    \/ KeepaliveStop
    \/ SessShutdown

SpecSession == InitSession /\ [][NextSession]_vars

\* ------------------------------------------- tryZap and ZapNote in detail
\* One tryZap call with ZapNote's steps spelled out (internal/zap/zapper.go):
\* the profile lookup, the signed zap request, the address conversion, the
\* endpoint's metadata and its bounds, the callback request and the wallet
\* call, with Stop cancelling b.ctx at any moment. The relays, the signer, the
\* endpoint and the wallet are the environment.

\* an error of ZapNote; the out-of-bounds error carries the three numbers of
\* its message
ZnErr(kind, ms, lo, hi) == [kind |-> kind, amount |-> ms, minS |-> lo, maxS |-> hi]

\* tryZap after ZapNote returned the error e: the pause and a second attempt
\* after the first failure, false after the second
ZnFailed(e) ==
    IF zn.attempt < MaxAttempts
    THEN [zn EXCEPT !.pc = "sleep", !.err = e]
    ELSE [zn EXCEPT !.pc = "done", !.err = e, !.result = "failed"]

\* tryZap starts its first attempt with the configured amount
ZnTryZap(amt) ==
    /\ zn.pc = "idle"
    /\ zn' = [ZnIdle EXCEPT !.pc = "addr", !.attempt = 1, !.amount = amt]
    /\ UNCHANGED <<stopped, znRest>>

\* faulty variant: the next attempt pays the invoice the failed attempt had
\* negotiated, when there is one
NextAttempt_ReusesInvoice(z) ==
    IF z.inv # 0
    THEN [z EXCEPT !.pc = "pay", !.attempt = @ + 1]
    ELSE [ZnIdle EXCEPT !.pc = "addr", !.attempt = z.attempt + 1, !.amount = z.amount,
                        !.signedN = z.signedN, !.issued = z.issued, !.passed = z.passed]

\* tryZap's next turn of the loop: ZapNote is called again with the event and
\* the configured amount, and with nothing of the attempt before (signedN,
\* issued and passed are the history of the signer, the endpoint and the wallet
\* client, not ZapNote's)
NextAttempt(z) ==
    [ZnIdle EXCEPT !.pc = "addr", !.attempt = z.attempt + 1, !.amount = z.amount,
                   !.signedN = z.signedN, !.issued = z.issued, !.passed = z.passed]

\* time.Sleep(2 * time.Second) is over, the second attempt starts
ZnRetry ==
    /\ zn.pc = "sleep"
    /\ zn' = NextAttempt(zn)
    /\ UNCHANGED <<stopped, znRest>>

\* getLightningAddress: the profile's lud16, read under profileCtx
ZnAddress(found, addr) ==
    /\ zn.pc = "addr"
    /\ zn' = IF found /\ ~stopped
             THEN [zn EXCEPT !.pc = "sign", !.address = addr]
             ELSE ZnFailed(ZnErr("noAddress", 0, 0, 0))
    /\ UNCHANGED <<stopped, znRest>>

\* createZapRequest on the signing session, then lightningAddressToLNURL
ZnSign(ok) ==
    /\ zn.pc = "sign"
    /\ zn' = IF ok /\ ~stopped
             THEN [zn EXCEPT !.pc = "meta", !.zapRequest = "signed",
                             !.signedN = @ + 1, !.art = zn.signedN + 1,
                             !.lnurl = lightningAddressToLNURL(zn.address)]
             ELSE ZnFailed(ZnErr("sign", 0, 0, 0))
    /\ UNCHANGED <<stopped, znRest>>

\* requestInvoice: fetchLNURLMetadata ends (http.Get takes no context; for
\* the empty endpoint it fails before any request is sent; ok: status 200 and
\* a body that parses), the tag, then the bounds
RequestInvoice(ok, tag, minS, maxS) ==
    IF zn.lnurl = <<>>
    THEN ZnFailed(ZnErr("http", 0, 0, 0))
    ELSE IF ~ok
    THEN [ZnFailed(ZnErr("http", 0, 0, 0)) EXCEPT !.meta = @ + 1]
    ELSE IF ~TagValid(tag)
    THEN [ZnFailed(ZnErr("invalidTag", 0, 0, 0)) EXCEPT !.meta = @ + 1, !.tag = tag]
    ELSE IF AmountOutOfBounds(zn.amount * MsatPerSat, minS, maxS)
    THEN [ZnFailed(ZnErr("outOfBounds", zn.amount * MsatPerSat, minS, maxS))
             EXCEPT !.meta = @ + 1, !.tag = tag, !.minS = minS, !.maxS = maxS]
    ELSE [zn EXCEPT !.pc = "callback", !.meta = @ + 1, !.tag = tag,
                    !.minS = minS, !.maxS = maxS]

ZnMetadata(ok, tag, minS, maxS) ==
    /\ zn.pc = "meta"
    /\ zn' = RequestInvoice(ok, tag, minS, maxS)
    /\ UNCHANGED <<stopped, znRest>>

\* fetchInvoice: the callback request ends (http.Get again; ok: status 200 and
\* a body that parses), then the body's status and pr
ZnCallback(ok, status, reason, pr) ==
    /\ zn.pc = "callback"
    /\ zn' = IF ~ok
             THEN [ZnFailed(ZnErr("http", 0, 0, 0)) EXCEPT !.callback = @ + 1]
             ELSE IF FetchInvoiceResult(status, reason, pr).err # "nil"
             THEN [ZnFailed(ZnErr(FetchInvoiceResult(status, reason, pr).err, 0, 0, 0))
                      EXCEPT !.callback = @ + 1,
                             !.body = [status |-> status, reason |-> reason, pr |-> pr],
                             !.reason = FetchInvoiceResult(status, reason, pr).reason]
             ELSE [zn EXCEPT !.pc = "pay", !.callback = @ + 1,
                             !.body = [status |-> status, reason |-> reason, pr |-> pr],
                             !.issued = @ + 1, !.inv = zn.issued + 1,
                             !.invoice = FetchInvoiceResult(status, reason, pr).pr]
    /\ UNCHANGED <<stopped, znRest>>

\* the invoice (and the zap request it was negotiated with) handed to PayInvoice
Passed(z) == Append(z.passed, [inv |-> z.inv, art |-> z.art])

\* PayInvoice(ctx, invoice): sendRequest publishes the pay_invoice request
ZnPay(published) ==
    /\ zn.pc = "pay"
    /\ zn' = IF published
             THEN [zn EXCEPT !.pc = "await", !.pay = @ + 1, !.passed = Passed(zn)]
             ELSE [ZnFailed(ZnErr("publish", 0, 0, 0))
                      EXCEPT !.pay = @ + 1, !.passed = Passed(zn)]
    /\ UNCHANGED <<stopped, znRest>>

\* sendRequest's select takes the response event
ZnResponse(paid) ==
    /\ zn.pc = "await"
    /\ zn' = IF paid THEN [zn EXCEPT !.pc = "done", !.result = "ok"]
             ELSE ZnFailed(ZnErr("wallet", 0, 0, 0))
    /\ UNCHANGED <<stopped, znRest>>

\* sendRequest's select takes <-responseCtx.Done()
ZnTimeout ==
    /\ zn.pc = "await"
    /\ zn' = ZnFailed(ZnErr("timeout", 0, 0, 0))
    /\ UNCHANGED <<stopped, znRest>>

\* Stop: b.cancel()
ZnStop ==
    /\ ~stopped
    /\ stopped' = TRUE
    /\ UNCHANGED <<zn, znRest>>

InitZapNote ==
    /\ Init
    /\ cfg = [amount |-> 1, dailyLimit |-> 1, perNpubLimit |-> 0, reaction |-> FALSE]

NextZapNote ==
    \/ \E amt \in 1..MaxAmount : ZnTryZap(amt)
    \/ ZnRetry
    \/ \E found \in BOOLEAN, addr \in Addresses : ZnAddress(found, addr)
    \/ \E ok \in BOOLEAN : ZnSign(ok)
    \/ \E ok \in BOOLEAN, tag \in Tags, minS \in Sendables, maxS \in Sendables :
           ZnMetadata(ok, tag, minS, maxS)
    \/ \E ok \in BOOLEAN, status \in Statuses, reason \in Reasons, pr \in Invoices :
           ZnCallback(ok, status, reason, pr)
    \/ \E published \in BOOLEAN : ZnPay(published)
    \/ \E paid \in BOOLEAN : ZnResponse(paid)
    \/ ZnTimeout
    \/ ZnStop

SpecZapNote == InitZapNote /\ [][NextZapNote]_vars

\* -------------------------------------------------------- React in detail
\* One React call (internal/reactor/reactor.go) under tryReact's reactCtx: the
\* reaction is signed, then published to the configured relays one after the
\* other, every RelayConnect and Publish under the same context.

\* `continue` / the end of the loop body: on to the next relay
AfterRelayFailure(r) == r

\* `if publishedCount == 0`
NoRelayAccepted(count, n) == count = 0

\* tryReact calls React for post e with the configured relays
RxReact(e, relays) ==
    /\ rx.pc = "idle"
    /\ rx' = [RxIdle EXCEPT !.pc = "sign", !.relays = relays, !.e = e]
    /\ UNCHANGED rxRest

\* GetPublicKey, the kind-7 event tagged with the post and its author, SignEvent
RxSign(ok) ==
    /\ rx.pc = "sign"
    /\ rx' = IF ok /\ rx.ctx = "live"
             THEN [rx EXCEPT !.pc = "publish", !.i = 1]
             ELSE [rx EXCEPT !.pc = "idle", !.result = "signFailed"]
    /\ UNCHANGED rxRest

\* one turn of the loop: RelayConnect(ctx, relayURL), Publish(ctx, reaction),
\* relay.Close(). With the context done nothing is sent; a relay that does
\* not answer holds the call until the context is done.
RxRelay ==
    /\ rx.pc = "publish"
    /\ rx.i <= Len(rx.relays)
    /\ LET b == rx.relays[rx.i]
           r == [rx EXCEPT !.i = @ + 1]
       IN  rx' = IF rx.ctx # "live" THEN AfterRelayFailure(r)
                 ELSE IF b = "accepts"
                 THEN [r EXCEPT !.sent = @ \cup {rx.i}, !.publishedCount = @ + 1]
                 ELSE IF b = "rejects"
                 THEN AfterRelayFailure([r EXCEPT !.sent = @ \cup {rx.i}])
                 ELSE IF b = "unreachable"
                 THEN AfterRelayFailure(r)
                 ELSE AfterRelayFailure([r EXCEPT !.ctx = "doneByRelay"])
    /\ UNCHANGED rxRest

\* the loop is over: an error when no relay accepted, nil otherwise
RxReturn ==
    /\ rx.pc = "publish"
    /\ rx.i > Len(rx.relays)
    /\ rx' = [rx EXCEPT !.pc = "idle",
                        !.result = IF NoRelayAccepted(rx.publishedCount, Len(rx.relays))
                                   THEN "noRelayAccepted" ELSE "nil"]
    /\ UNCHANGED rxRest

\* Stop cancels b.ctx, the parent of reactCtx
RxCancel ==
    /\ rx.pc \in {"sign", "publish"}
    /\ rx.ctx = "live"
    /\ rx' = [rx EXCEPT !.ctx = "cancelled"]
    /\ UNCHANGED rxRest

InitReact ==
    /\ Init
    /\ cfg = [amount |-> 1, dailyLimit |-> 1, perNpubLimit |-> 0, reaction |-> TRUE]

NextReact ==
    \/ \E e \in EventIds, n \in 1..MaxRelays :
           \E relays \in [1..n -> RelayBehaviours] : RxReact(e, relays)
    \/ \E ok \in BOOLEAN : RxSign(ok)
    \/ RxRelay
    \/ RxReturn
    \/ RxCancel

SpecReact == InitReact /\ [][NextReact]_vars

\* ------------------------------------------------- the wallet RPC in detail
\* One PayInvoice call after the other on the wallet client (nwc.Client):
\* sendRequest builds and signs the request, publishes it with its retry loop,
\* subscribes to the response and waits. The relay and the wallet are the
\* environment. The fields of nwc keep what the last call did until the next
\* call starts; relay is c.relay, which outlives the call.

\* sendRequest returns sendErr (with the parsed response's error field
\* respErr when it is nil) and PayInvoice returns
NwcReturn(r, sendErr, respErr) ==
    [r EXCEPT !.pc = "idle", !.sendErr = sendErr,
              !.ret = PayInvoiceResult(sendErr, respErr),
              !.attempt = AttemptAfterPay(PayInvoiceResult(sendErr, respErr)),
              !.n = @ + 1]

\* PayInvoice is called: sendRequest computes the shared secret and the
\* public key (either fails for a bad secret), encrypts and signs the request
NwcPayInvoice(keysOk) ==
    /\ nwc.pc = "idle"
    /\ nwc.n < MaxWalletCalls
    /\ nwc' = IF keysOk
              THEN [NwcIdle EXCEPT !.pc = "publish", !.id = nwc.n + 1,
                                   !.relay = nwc.relay, !.n = nwc.n]
              ELSE NwcReturn([NwcIdle EXCEPT !.id = nwc.n + 1, !.relay = nwc.relay,
                                             !.n = nwc.n],
                             "secret", NilResponseError)
    /\ UNCHANGED nwcRest

\* one pass of the retry loop: c.relay.Publish(ctx, event) ends. nil leaves the
\* loop; "connection closed" leads to the pause and RelayConnect; any other
\* error leaves the loop and sendRequest returns it
NwcPublish(out) ==
    /\ nwc.pc = "publish"
    /\ out = "ok" => nwc.relay = "connected"
    /\ nwc' = IF out = "ok"
              THEN [nwc EXCEPT !.pc = "subscribe", !.publishes = @ + 1, !.lastPub = out]
              ELSE IF RetryPublish(out)
              THEN [nwc EXCEPT !.pc = "reconnect", !.publishes = @ + 1,
                               !.lastPub = out, !.relay = "unconnected"]
              ELSE NwcReturn([nwc EXCEPT !.publishes = @ + 1, !.lastPub = out],
                             "publish", NilResponseError)
    /\ UNCHANGED nwcRest

\* after time.Sleep(1 * time.Second): c.relay, _ = nostr.RelayConnect(ctx,
\* c.relayURL), the error is dropped; then `continue`: the next pass, or the
\* end of the loop with the last publish error
NwcReconnect(ok) ==
    /\ nwc.pc = "reconnect"
    /\ nwc' = IF nwc.publishes < PublishTries
              THEN [nwc EXCEPT !.pc = "publish", !.reconnects = @ + 1,
                               !.relay = IF ok THEN "connected" ELSE "unconnected"]
              ELSE NwcReturn([nwc EXCEPT !.reconnects = @ + 1,
                                         !.relay = IF ok THEN "connected" ELSE "unconnected"],
                             "publish", NilResponseError)
    /\ UNCHANGED nwcRest

\* c.relay.Subscribe(responseCtx, filters) with the filter on the request id
NwcSubscribe(ok) ==
    /\ nwc.pc = "subscribe"
    /\ nwc' = IF ok THEN [nwc EXCEPT !.pc = "wait"]
              ELSE NwcReturn(nwc, "subscribe", NilResponseError)
    /\ UNCHANGED nwcRest

\* the wallet publishes its response after Publish has returned and before
\* Subscribe has sent the filter: kinds 23194/23195 are in the ephemeral range
\* (20000..29999), which a relay passes on to the subscriptions it has and
\* does not store, so the subscription that comes later is not given the event
\* (a relay that does keep it is the case of NwcEvent)
NwcEarlyResponse ==
    /\ nwc.pc = "subscribe"
    /\ nwc.early = "none"
    /\ nwc' = [nwc EXCEPT !.early = "missed"]
    /\ UNCHANGED nwcRest

\* the select takes an event from sub.Events: it is decrypted and parsed, and
\* PayInvoice looks at the error field
NwcEvent(ev) ==
    /\ nwc.pc = "wait"
    /\ nwc.early = "none"
    /\ FilterMatches(ResponseFilter(nwc.id), ev)
    /\ nwc' = IF ~DecryptOk(ev.content)
              THEN NwcReturn([nwc EXCEPT !.got = ev], "decrypt", NilResponseError)
              ELSE IF ~UnmarshalOk(ev.content)
              THEN NwcReturn([nwc EXCEPT !.got = ev], "parse", NilResponseError)
              ELSE NwcReturn([nwc EXCEPT !.got = ev], "nil", ErrorField(ev.content))
    /\ UNCHANGED nwcRest

\* the select takes <-responseCtx.Done(): the 30 s are over or the caller's
\* context is done
NwcTimeout ==
    /\ nwc.pc = "wait"
    /\ nwc' = NwcReturn(nwc, "timeout", NilResponseError)
    /\ UNCHANGED nwcRest

\* the select takes `responseEvent := <-sub.Events` on a channel that was
\* closed because the subscription ended (the relay closed it or the
\* connection dropped): the receive yields nil and responseEvent.Content
\* dereferences it; the panic ends the process
NwcSubClosed ==
    /\ nwc.pc = "wait"
    /\ nwc' = [nwc EXCEPT !.pc = "panic"]
    /\ UNCHANGED nwcRest

InitWalletRpc ==
    /\ Init
    /\ cfg = [amount |-> 1, dailyLimit |-> 1, perNpubLimit |-> 0, reaction |-> FALSE]

\* the steps of a call in progress
NwcStep ==
    \/ \E out \in PublishOutcomes : NwcPublish(out)
    \/ \E ok \in BOOLEAN : NwcReconnect(ok)
    \/ \E ok \in BOOLEAN : NwcSubscribe(ok)
    \/ \E ev \in ResponseEvents : NwcEvent(ev)
    \/ NwcTimeout

NextWalletRpc ==
    \/ \E keysOk \in BOOLEAN : NwcPayInvoice(keysOk)
    \/ NwcStep
    \/ NwcSubClosed
    \/ NwcEarlyResponse

SpecWalletRpc == InitWalletRpc /\ [][NextWalletRpc]_vars

\* ------------------------------------------------------------------ claims
RowsOf(l, e) == {r \in l : r.event_id = e}

\* ledger amounts settled on UTC day d
DayTotal(l, d) == SumAmount({r \in l : r.zapped_at \div DayLen = d})

\* ledger amounts settled on UTC day d for author a
AuthorDayTotal(l, a, d) ==
    SumAmount({r \in l : r.author_pubkey = a /\ r.zapped_at \div DayLen = d})

\* C1: while a delivery of a post that is in the ledger is being processed, no
\* ZapNote run (signing, invoice negotiation), no pay_invoice request and no
\* React run has been made for it, and no wallet request is open: the delivery
\* never gets past the duplicate check.
C1_DuplicateSkipped ==
    (pc # "idle" /\ HasKey(ledger, cur)) =>
        (pc = "checkZapped" /\ calls = NoCalls /\ req = "none" /\ zpc = "zNone")

\* a post that was paid and recorded was delivered again and skipped
C1_Witness ==
    /\ pc = "idle" /\ report.zap = "duplicate"
    /\ HasKey(ledger, cur) /\ paidCount[cur] = 1 /\ calls = NoCalls

\* C2: the ledger never holds two rows with one event id; a MarkZapped call for
\* an id that has a row fails with a conflict and changes nothing; a call for a
\* new id succeeds and adds exactly its row; no call changes or removes a row.
C2_UniqueKey == \A e \in EventIds : Cardinality(RowsOf(ledger, e)) <= 1

C2_MarkStep ==
    dbCalls' = dbCalls + 1 =>
        /\ ledger \subseteq ledger'
        /\ IF HasKey(ledger, cur')
           THEN markErr' = "conflict" /\ ledger' = ledger
           ELSE /\ markErr' = "nil"
                /\ Cardinality(RowsOf(ledger', cur')) = 1
                /\ \A e \in EventIds \ {cur'} : RowsOf(ledger', e) = RowsOf(ledger, e)

C2_OneEntryPerId == [](C2_UniqueKey) /\ [][C2_MarkStep]_vars

\* three calls for one id were made: one row, the last call a conflict
C2_Witness ==
    /\ dbCalls >= 3 /\ markErr = "conflict"
    /\ Cardinality(ledger) = 1 /\ HasKey(ledger, cur)

\* C3: the wallet settles at most one payment per post and the ledger holds at
\* most one row per post.
C3_ExactlyOnce ==
    \A e \in EventIds : paidCount[e] <= 1 /\ Cardinality(RowsOf(ledger, e)) <= 1

\* C4: on every UTC day the ledger amounts settled that day sum to at most
\* daily_limit (posts are processed one at a time, so the bound is never
\* overshot).
C4_DailyBudget == \A d \in Days : DayTotal(ledger, d) <= cfg.dailyLimit

\* two posts were recorded on one day and fill the daily limit exactly
C4_Witness ==
    \E d \in Days :
        /\ DayTotal(ledger, d) = cfg.dailyLimit
        /\ Cardinality({r \in ledger : r.zapped_at \div DayLen = d}) >= 2

\* C5: on every UTC day and for every author the ledger amounts settled that
\* day for that author sum to at most per_npub_limit.
C5_AuthorBudget ==
    \A d \in Days, a \in Authors : AuthorDayTotal(ledger, a, d) <= cfg.perNpubLimit

\* an author's limit is full while the daily limit has room, and the author's
\* next post was skipped
C5_Witness ==
    /\ pc = "idle" /\ report.zap = "budget" /\ cfg.perNpubLimit > 0
    /\ AuthorDayTotal(ledger, AuthorOf(cur), now \div DayLen) = cfg.perNpubLimit
    /\ DayTotal(ledger, now \div DayLen) + cfg.amount <= cfg.dailyLimit

\* C6: on every UTC day the wallet has paid out at most daily_limit plus one
\* zap amount.
C6_PaidWithinBudget == \A d \in Days : paidOn[d] <= cfg.dailyLimit + cfg.amount

\* the row processEvent writes for the post it is working on
CurRow == Row(cur, AuthorOf(cur), now, cfg.amount, CreatedAtOf(cur))

\* C7: a step changes the ledger only by adding the row of the current post
\* after tryZap returned true with a pay_invoice request made; every row
\* stands for a payment the wallet settled; and a delivery reported as failed
\* has left no row, whatever the reaction did, with a successful reaction
\* reported as successful.
C7_LedgerStep ==
    ledger' # ledger =>
        /\ pc = "wait" /\ zapSuccess /\ calls.pay >= 1
        /\ ledger' = ledger \cup {CurRow}

C7_State ==
    /\ \A e \in EventIds : HasKey(ledger, e) => paidCount[e] >= 1
    /\ (pc = "idle" /\ report.zap = "failed") =>
          /\ ~HasKey(ledger, cur) /\ ~zapSuccess
          /\ (reactSuccess => report.react = "ok")

C7_EntryOnlyAfterSuccess == [](C7_State) /\ [][C7_LedgerStep]_vars

\* the wallet rejected both pay_invoice requests, the reaction was published
C7_Witness ==
    /\ pc = "idle" /\ report = [zap |-> "failed", react |-> "ok"]
    /\ calls.pay = 2 /\ paidCount[cur] = 0 /\ ~HasKey(ledger, cur)

\* C8: a React run changes nothing of the settlement: not the settlement task,
\* the wallet, the ledger, the count of ZapNote runs and pay_invoice requests
\* or the report; the settlement task never waits for the reaction; and after
\* the join the settlement report and the ledger write are decided by the
\* settlement result (and the ledger's answer) alone.
C8_ReactStep ==
    calls'.react = calls.react + 1 =>
        /\ UNCHANGED <<zpc, attempt, zapSuccess, req, balance, paidCount, paidOn,
                       ledger, markErr, report, pc>>
        /\ calls'.zapNote = calls.zapNote /\ calls'.pay = calls.pay

C8_FinishStep ==
    (pc = "wait" /\ pc' = "idle") =>
        /\ report'.zap = (IF zapSuccess THEN "settled" ELSE "failed")
        /\ (~zapSuccess => ledger' = ledger /\ markErr' = markErr)
        /\ (zapSuccess => markErr' \in {"nil", "io"})
        /\ (zapSuccess /\ markErr' = "nil" => ledger' = ledger \cup {CurRow})
        /\ (zapSuccess /\ markErr' = "io" => ledger' = ledger)

C8_ZapNeverWaits ==
    /\ zpc = "zAddr" => ENABLED ZAddr(TRUE)
    /\ zpc = "zSign" => ENABLED ZSign(TRUE)
    /\ zpc = "zInvoice" => ENABLED ZInvoice(TRUE)
    /\ zpc = "zPay" => ENABLED ZPay(TRUE)
    /\ (zpc = "zAwait" /\ req # "published") => ENABLED ZResponse

C9_State ==
    /\ calls.zapNote <= 2
    /\ zapSuccess => zpc \in {"zDone", "zNone"}
    /\ (pc = "idle" /\ report.zap = "failed") => (calls.zapNote = 2 /\ ~zapSuccess)
    /\ (pc = "idle" /\ report.zap = "settled") => (calls.zapNote \in {1, 2} /\ zapSuccess)

C9_RunStep ==
    calls'.zapNote > calls.zapNote =>
        /\ ~zapSuccess /\ ~zapSuccess'
        /\ calls'.zapNote = calls.zapNote + 1 /\ calls'.zapNote = attempt

C9_AtMostTwoAttempts == [](C9_State) /\ [][C9_RunStep]_vars

\* the first attempt failed, the second one paid
C9_Witness ==
    /\ pc = "idle" /\ report.zap = "settled"
    /\ calls.zapNote = 2 /\ calls.pay = 1 /\ paidCount[cur] = 1

\* C10: the daily test ends the delivery exactly when today's ledger total plus
\* the zap amount is above daily_limit, the author test exactly when the
\* author's total today plus the amount is above per_npub_limit (a ledger
\* error apart); a delivery skipped for budget has made no ZapNote run, no
\* pay_invoice request, no React run and no ledger write; a post that fills a
\* limit exactly goes on.
C10_DailyStep ==
    (pc = "checkDaily" /\ pc' # "checkDaily") =>
        IF DayTotal(ledger, now \div DayLen) + cfg.amount > cfg.dailyLimit
        THEN pc' = "idle" /\ report'.zap \in {"budget", "dberror"}
        ELSE report'.zap # "budget" /\ (report'.zap # "dberror" => pc' = "checkAuthor")

C10_AuthorStep ==
    (pc = "checkAuthor" /\ pc' # "checkAuthor") =>
        IF AuthorDayTotal(ledger, AuthorOf(cur), now \div DayLen) + cfg.amount
               > cfg.perNpubLimit
        THEN pc' = "idle" /\ report'.zap \in {"budget", "dberror"}
        ELSE /\ report'.zap # "budget"
             /\ report'.zap # "dberror" => (pc' = "wait" /\ zpc' = "zAddr")

C10_State ==
    (pc = "idle" /\ report.zap = "budget") =>
        /\ calls = NoCalls /\ zpc = "zNone" /\ rpc = "rNone" /\ req = "none"
        /\ ~HasKey(ledger, cur)

C10_BudgetSkip == [](C10_State) /\ [][C10_DailyStep /\ C10_AuthorStep]_vars

\* two posts filled the daily limit exactly and were recorded, and the next
\* post was skipped
C10_Witness ==
    /\ pc = "idle" /\ report.zap = "budget" /\ calls = NoCalls
    /\ DayTotal(ledger, now \div DayLen) = cfg.dailyLimit
    /\ Cardinality(ledger) = 2

\* C11 as stated: the retried call of a wrapper runs after exactly one
\* reconnect and one failed call, on the handle that this reconnect installed.
C11_RetryOnOwnHandle ==
    \A c \in Callers :
        sess[c].pc = "call2" =>
            /\ sess[c].reconnects = 1 /\ sess[c].calls = 1
            /\ sess[c].retriedOn = sess[c].installed

C11_State ==
    \A c \in Callers :
        /\ sess[c].reconnects <= 1 /\ sess[c].calls <= 1
        /\ sess[c].pc = "newClient" =>
              /\ isSessionError(sess[c].err.kind) /\ sess[c].err.from = "call1"
              /\ sess[c].calls = 1 /\ sess[c].reconnects = 0
        /\ sess[c].pc \in {"swap", "getClient", "call2"} =>
              /\ sess[c].reconnects = 1 /\ sess[c].calls = 1
              /\ isSessionError(sess[c].err.kind)
        /\ sess[c].pc = "call2" =>
              /\ sess[c].installed \in 2..made
              /\ sess[c].retriedOn \in 2..made
              /\ sess[c].retriedOn # sess[c].first

C11_Step ==
    \A c \in Callers :
        /\ (sess[c].pc = "getClient" /\ sess'[c].pc # "getClient") =>
              (sess'[c].pc = "call2" /\ sess'[c].retriedOn = handle)
        /\ (sess[c].pc = "call2" /\ sess'[c].pc # "call2") =>
              /\ sess'[c].pc = "idle" /\ sess'[c].n = sess[c].n + 1
              /\ sess'[c].ret.from \in {"none", "call2"}
              /\ UNCHANGED <<handle, made>>
        /\ (sess[c].pc = "call1" /\ isSessionError(sess'[c].err.kind)) =>
              sess'[c].pc = "newClient"

\* C11: a wrapper call whose first call failed with a session error makes
\* exactly one reconnect and, when that reconnect installed a new handle,
\* exactly one retried call; the retry runs on the handle that is current when
\* it starts, which one of the reconnects installed (its own, or one that
\* swapped after it) and which is never the handle of the failed call; the
\* retry's result, error or not, is returned with no further reconnect.
C11_OneReconnectOneRetry == [](C11_State) /\ [][C11_Step]_vars

\* a retried call failed too and its error was returned to the caller
C11_Witness ==
    \E c \in Callers :
        /\ sess[c].pc = "idle" /\ sess[c].n >= 1
        /\ sess[c].ret = ErrOf("canceled", "call2")
        /\ made >= 2

\* C19: when the reconnect of a wrapper call fails, the wrapper returns the
\* error of the first call (not the reconnect's error), without a retried
\* call, and the step leaves the handle as it was; a later call starts on the
\* session's current handle.
C19_Step ==
    \A c \in Callers :
        /\ (sess[c].pc = "newClient" /\ sess'[c].pc = "idle") =>
              /\ sess'[c].ret = sess[c].err
              /\ sess'[c].ret.from = "call1"
              /\ sess'[c].ret.kind \in {"canceled", "deadline"}
              /\ sess[c].calls = 1
              /\ UNCHANGED <<handle, made>>
        /\ (sess[c].pc = "newClient" /\ sess'[c].pc = "swap") => made' = made + 1
        /\ (sess[c].pc = "idle" /\ sess'[c].pc = "call1") =>
              (sess'[c].first = handle /\ UNCHANGED handle)

C19_ReconnectFailureSurfacesOriginal == [][C19_Step]_vars

\* a caller got the deadline error of its first call back after a failed
\* reconnect, the first handle is still installed, and the other caller is
\* using it
C19_Witness ==
    \E c, o \in Callers :
        /\ sess[c].pc = "idle" /\ sess[c].ret = ErrOf("deadline", "call1")
        /\ handle = 1 /\ made = 1
        /\ o # c /\ sess[o].pc = "call1" /\ sess[o].first = 1

\* C20: a first call that ends with an error of the remote signer (neither
\* context.Canceled nor context.DeadlineExceeded) is returned as it is: the
\* wrapper starts no reconnect and no retry and leaves the handle alone; only
\* the two context errors lead to reconnect().
C20_State ==
    \A c \in Callers :
        sess[c].pc \in {"newClient", "swap", "getClient", "call2"} =>
            sess[c].err.kind \in {"canceled", "deadline"}

C20_Step ==
    \A c \in Callers :
        (sess[c].pc = "call1" /\ sess'[c].pc # "call1") =>
            /\ UNCHANGED <<handle, made>>
            /\ IF sess'[c].pc = "idle"
               THEN /\ sess'[c].ret \in {NoErr, ErrOf("rejected", "call1")}
                    /\ sess'[c].n = sess[c].n + 1
                    /\ sess[c].reconnects = 0 /\ sess[c].calls = 0
               ELSE /\ sess'[c].pc = "newClient"
                    /\ sess'[c].err.kind \in {"canceled", "deadline"}

C20_ProtocolErrorReturned == [](C20_State) /\ [][C20_Step]_vars

\* the remote signer rejected a call: the error came back from the first call
\* and no client was ever connected besides the first
C20_Witness ==
    \E c \in Callers :
        /\ sess[c].pc = "idle" /\ sess[c].n >= 1
        /\ sess[c].ret = ErrOf("rejected", "call1")
        /\ made = 1 /\ handle = 1

\* the attempt in progress (or just failed) has got the endpoint's metadata
ZnHasMetadata == zn.minS # 0

\* C12: the callback request is made only with minSendable <= amountSats*1000
\* <= maxSendable; with the amount outside the bounds the attempt fails with
\* the out-of-bounds error, which names amountSats*1000 and both bounds, and
\* makes neither the callback request nor a pay_invoice request.
C12_BoundsBeforeCallback ==
    /\ (zn.pc \in {"callback", "pay", "await"} \/ zn.callback > 0 \/ zn.pay > 0) =>
          /\ ZnHasMetadata
          /\ zn.minS <= zn.amount * 1000 /\ zn.amount * 1000 <= zn.maxS
    /\ (ZnHasMetadata /\ (zn.amount * 1000 < zn.minS \/ zn.amount * 1000 > zn.maxS)) =>
          /\ zn.pc \in {"sleep", "done"}
          /\ zn.err = [kind |-> "outOfBounds", amount |-> zn.amount * 1000,
                       minS |-> zn.minS, maxS |-> zn.maxS]
          /\ zn.callback = 0 /\ zn.pay = 0 /\ zn.result # "ok"
    /\ zn.err.kind = "outOfBounds" =>
          (zn.amount * 1000 < zn.minS \/ zn.amount * 1000 > zn.maxS)

\* an attempt was refused with the amount one millisatoshi below minSendable
C12_Witness ==
    /\ zn.pc = "sleep" /\ zn.err.kind = "outOfBounds"
    /\ zn.err.amount = zn.err.minS - 1 /\ zn.callback = 0 /\ zn.pay = 0

\* an attempt with the amount at maxSendable exactly has made its callback request
C12_AtBoundAccepted ==
    /\ zn.pc = "pay" /\ zn.callback = 1
    /\ zn.amount * 1000 = zn.maxS /\ zn.minS < zn.maxS

\* number of "@" characters of s
CountAt(s) == Cardinality({i \in DOMAIN s : s[i] = "@"})

\* the attempt in progress (or just ended) has converted its address
ZnConverted ==
    \/ zn.pc \in {"meta", "callback", "pay", "await"}
    \/ zn.result = "ok"
    \/ zn.err.kind \in {"http", "invalidTag", "outOfBounds", "lnurlError", "noInvoice",
                        "publish", "wallet", "timeout"}

\* C13: the endpoint of an address with exactly one "@" at position i is
\* https:// + the part after i + /.well-known/lnurlp/ + the part before i,
\* every other address gives the empty string; an attempt with the empty
\* endpoint fails at the metadata request without a callback request and
\* without a pay_invoice request.
C13_AddressConversion ==
    ZnConverted =>
        /\ IF CountAt(zn.address) = 1
           THEN LET i == CHOOSE k \in DOMAIN zn.address : zn.address[k] = "@"
                IN  zn.lnurl = <<"https://">> \o SubSeq(zn.address, i + 1, Len(zn.address))
                                 \o <<"/.well-known/lnurlp/">>
                                 \o SubSeq(zn.address, 1, i - 1)
           ELSE zn.lnurl = <<>>
        /\ zn.lnurl = <<>> =>
              /\ zn.pc \in {"meta", "sleep", "done"}
              /\ zn.result # "ok"
              /\ zn.meta = 0 /\ zn.callback = 0 /\ zn.pay = 0
              /\ zn.pc # "meta" => zn.err.kind = "http"

\* an address with two "@" gave the empty endpoint and the attempt failed
\* with no request made
C13_Witness ==
    /\ zn.pc = "sleep" /\ CountAt(zn.address) = 2 /\ zn.lnurl = <<>>
    /\ zn.err.kind = "http" /\ zn.pay = 0

\* an endpoint HTTP request of the running attempt ends with a response
ZnHttpCompletes ==
    \/ \E tag \in Tags, lo \in Sendables, hi \in Sendables :
           ZnMetadata(TRUE, tag, lo, hi) /\ zn'.meta = zn.meta + 1
    \/ \E status \in Statuses, reason \in Reasons, pr \in Invoices :
           ZnCallback(TRUE, status, reason, pr)

\* C18: once Stop has cancelled the shared context, the in-flight calls of
\* the attempt are cancelled: no endpoint HTTP request (metadata, callback)
\* can still end with a response.
C18_StopCancelsInFlight == stopped => ~ENABLED ZnHttpCompletes

\* C14: a React call that ran its loop (without an outside cancellation)
\* returns nil exactly when a relay accepted the publish, and every relay
\* that answers (accepting or rejecting) was sent the reaction, whatever the
\* relays before it did.
C14_PublishesToEachRelay ==
    (rx.pc = "idle" /\ rx.result \in {"nil", "noRelayAccepted"} /\ rx.ctx # "cancelled") =>
        /\ rx.result = "nil" <=> \E j \in DOMAIN rx.relays : rx.relays[j] = "accepts"
        /\ \A j \in DOMAIN rx.relays :
              rx.relays[j] \in {"accepts", "rejects"} => j \in rx.sent

\* C15: while the settlement of a post is in progress (its tasks are running
\* and processEvent waits for them), the intake loop can take the next
\* delivered post.
C15_IntakeNeverBlocked ==
    (pc = "wait" /\ delivered < MaxDeliveries) =>
        ENABLED (\E e \in EventIds, k \in Kinds : Deliver(e, k))

\* C16: when the ledger write after a successful settlement fails, the
\* failure is noted, the wallet's payment stays as it is, the ledger is
\* unchanged and the post is reported as settled; the next post can be taken;
\* and a delivery is skipped as a duplicate only for a post that has a row, so
\* the same post delivered again goes through the pipeline again.
C16_FailedWriteStep ==
    (pc = "wait" /\ pc' = "idle" /\ zapSuccess /\ markErr' # "nil") =>
        /\ markErr' = "io"
        /\ ledger' = ledger /\ ~HasKey(ledger', cur)
        /\ UNCHANGED <<balance, paidCount, paidOn>>
        /\ report'.zap = "settled"

C16_DuplicateStep ==
    (pc = "checkZapped" /\ pc' # "checkZapped") =>
        IF report'.zap = "dberror" THEN pc' = "idle"
        ELSE IF HasKey(ledger, cur) THEN pc' = "idle" /\ report'.zap = "duplicate"
        ELSE pc' = "checkDaily"

C16_State ==
    (pc = "idle" /\ markErr = "io") =>
        /\ report.zap = "settled" /\ paidCount[cur] >= 1 /\ ~HasKey(ledger, cur)
        /\ delivered < MaxDeliveries =>
              ENABLED (\E e \in EventIds, k \in Kinds : Deliver(e, k))

C16_LedgerWriteFailure == [](C16_State) /\ [][C16_FailedWriteStep /\ C16_DuplicateStep]_vars

\* the wallet paid at the first attempt and the ledger write failed
C16_Witness ==
    /\ pc = "idle" /\ markErr = "io" /\ report.zap = "settled"
    /\ paidCount[cur] = 1 /\ calls.pay = 1 /\ ledger = {}

\* a post that was paid and left no row was delivered again, passed the
\* duplicate check and has been paid a second time
C16_ZappedAgain ==
    /\ pc = "wait" /\ delivered = 2 /\ paidCount[cur] = 2 /\ ledger = {}
    /\ calls.pay = 1 /\ attempt = 1 /\ req = "paid"

\* C17: one post delivered on an empty ledger with the amount within both
\* limits goes through the three checks; when its one ZapNote run succeeded,
\* the reaction (if enabled) succeeded at its first run and the ledger write
\* succeeded, then exactly one pay_invoice request was made, the wallet
\* settled one payment, the ledger holds exactly the row of that post, its
\* author and the configured amount, and exactly one React call was made for
\* the post (none with reactions disabled).
C17_ChecksPass ==
    (ledger = {} /\ cfg.amount <= cfg.dailyLimit /\ cfg.amount <= cfg.perNpubLimit
        /\ pc \in {"checkZapped", "checkDaily", "checkAuthor"} /\ pc' # pc
        /\ report'.zap # "dberror") =>
            pc' = (CASE pc = "checkZapped" -> "checkDaily"
                     [] pc = "checkDaily" -> "checkAuthor"
                     [] pc = "checkAuthor" -> "wait")

C17_FinishStep ==
    (pc = "wait" /\ pc' = "idle" /\ delivered = 1 /\ ledger = {}
        /\ calls.zapNote = 1 /\ zapSuccess /\ markErr' = "nil"
        /\ (cfg.reaction => (calls.react = 1 /\ reactSuccess))) =>
            /\ calls.pay = 1 /\ paidCount[cur] = 1
            /\ \A e \in EventIds \ {cur} : paidCount[e] = 0
            /\ ledger' = {[event_id |-> cur, author_pubkey |-> AuthorOf(cur),
                           zapped_at |-> now, amount |-> cfg.amount,
                           event_created_at |-> CreatedAtOf(cur)]}
            /\ calls.react = (IF cfg.reaction THEN 1 ELSE 0)
            /\ report' = [zap |-> "settled",
                          react |-> IF cfg.reaction THEN "ok" ELSE "none"]

C17_EndToEnd == [][C17_ChecksPass /\ C17_FinishStep]_vars

\* the single post was paid, recorded and reacted to, each at the first try
C17_Witness ==
    /\ pc = "idle" /\ delivered = 1 /\ cfg.reaction
    /\ report = [zap |-> "settled", react |-> "ok"]
    /\ calls = [zapNote |-> 1, pay |-> 1, react |-> 1]
    /\ paidCount[cur] = 1 /\ Cardinality(ledger) = 1 /\ HasKey(ledger, cur)

\* C21: the session handle changes only in the swap step of a reconnect (a
\* caller's or the keepalive's), and the value installed is a client that
\* NewClient returned connected; the handle and every snapshot in use are
\* connected clients, never nil; a call in flight keeps the snapshot it took
\* while the handle is swapped under it; a snapshot is the handle that is
\* installed when getClient runs.
C21_State ==
    /\ handle \in 1..made
    /\ \A c \in Callers :
          /\ sess[c].pc = "call1" => sess[c].first \in 1..made
          /\ sess[c].pc = "call2" => sess[c].retriedOn \in 1..made
          /\ sess[c].pc \in {"swap", "getClient"} => sess[c].newc \in 2..made
    /\ ka.pc = "swap" => ka.newc \in 2..made

C21_Step ==
    /\ handle' # handle =>
          \/ \E c \in Callers :
                /\ sess[c].pc = "swap" /\ sess'[c].pc = "getClient"
                /\ handle' = sess[c].newc
          \/ ka.pc = "swap" /\ ka'.pc = "wait" /\ handle' = ka.newc
    /\ \A c \in Callers :
          /\ (sess[c].pc = "call1" /\ sess'[c].pc = "call1") =>
                sess'[c].first = sess[c].first
          /\ (sess[c].pc = "call2" /\ sess'[c].pc = "call2") =>
                sess'[c].retriedOn = sess[c].retriedOn
          /\ (sess[c].pc = "idle" /\ sess'[c].pc = "call1") =>
                (sess'[c].first = handle /\ handle' = handle)
          /\ (sess[c].pc = "getClient" /\ sess'[c].pc = "call2") =>
                (sess'[c].retriedOn = handle /\ handle' = handle)

C21_HandleSwappedWhole == [](C21_State) /\ [][C21_Step]_vars

\* one caller's call is still in flight on the first client after a reconnect
\* swapped the handle, and the other caller, who came after the swap, runs on
\* the new one
C21_Witness ==
    \E c, o \in Callers :
        /\ c # o /\ handle = 2
        /\ sess[c].pc = "call1" /\ sess[c].first = 1
        /\ sess[o].pc = "call1" /\ sess[o].first = 2

\* what holds of the publish loop: at most PublishTries publishes; a publish
\* after the first follows a "connection closed" failure and a RelayConnect
\* call; after any other failure the call is over with the publish error, no
\* response was waited for
C22_PublishLoop ==
    /\ nwc.publishes <= PublishTries
    /\ (nwc.pc = "publish" /\ nwc.publishes >= 1) =>
          (nwc.lastPub = "closed" /\ nwc.reconnects = nwc.publishes)
    /\ nwc.pc \in {"subscribe", "wait"} => nwc.lastPub = "ok"
    /\ nwc.lastPub = "other" =>
          /\ nwc.pc = "idle" /\ nwc.ret = NwcRet("publish", "", "")
          /\ nwc.got = NoResponseEvent

\* C22: the wallet RPC publishes a request at most three times; a publish
\* after the first is made only after a publish failure that reports a closed
\* connection and on a fresh connection made in between; any other publish
\* failure ends the call at once with an error, with no further publish and no
\* wait for a response.
C22_RepublishOnFreshConnection ==
    /\ nwc.publishes <= PublishTries
    /\ (nwc.pc = "publish" /\ nwc.publishes >= 1) =>
          (nwc.lastPub = "closed" /\ nwc.relay = "connected")
    /\ nwc.lastPub = "other" =>
          (nwc.pc = "idle" /\ nwc.ret.kind = "publish" /\ nwc.got = NoResponseEvent)

\* an event taken from the response subscription is a response that
\* references the request of the call
C23_State ==
    nwc.got # NoResponseEvent =>
        (nwc.got.kind = KindResponse /\ nwc.got.e = nwc.id)

\* the wait ends with the call's return: on the first event of the
\* subscription, or with the timeout error
C23_Step ==
    (nwc.pc = "wait" /\ nwc'.pc # "wait") =>
        /\ nwc'.pc = "idle" /\ nwc'.n = nwc.n + 1
        /\ \/ nwc'.got # NoResponseEvent /\ nwc'.got.e = nwc.id
           \/ nwc'.got = NoResponseEvent /\ nwc'.sendErr = "timeout"

\* C23: after a successful publish the wallet RPC call ends by returning:
\* with the first response event that references the published request, or
\* with the response-timeout error when the wait is over; it never returns a
\* response that references another request.
C23_ResponseOrTimeout == [](C23_State) /\ [][C23_Step]_vars

\* a PayInvoice call has returned
NwcReturned == nwc.pc = "idle" /\ nwc.n >= 1

\* the last call took a response event for its request that decrypts and
\* parses
NwcGotResponse ==
    /\ nwc.got.kind = KindResponse /\ nwc.got.e = nwc.id
    /\ DecryptOk(nwc.got.content) /\ UnmarshalOk(nwc.got.content)

\* C24: PayInvoice returns nil only when sendRequest took a response event
\* for the published request that decrypts and parses and whose error field
\* is null; when the parsed response has an error, PayInvoice returns the
\* payment error with the wallet's code and message; tryZap counts the attempt
\* as successful exactly when PayInvoice returned nil.
C24_SuccessOnlyOnNullError ==
    NwcReturned =>
        /\ nwc.ret = NwcNil =>
              /\ nwc.lastPub = "ok" /\ NwcGotResponse
              /\ ErrorField(nwc.got.content).isNil
        /\ (NwcGotResponse /\ ~ErrorField(nwc.got.content).isNil) =>
              /\ nwc.ret = NwcRet("paymentFailed", ErrorField(nwc.got.content).code,
                                  ErrorField(nwc.got.content).message)
              /\ nwc.attempt = "failed"
        /\ nwc.attempt = "succeeded" <=> nwc.ret = NwcNil
        /\ nwc.attempt = "failed" <=> nwc.ret # NwcNil

\* the wallet answered the request with the error INSUFFICIENT_BALANCE and
\* PayInvoice returned it
C24_Witness ==
    /\ NwcReturned /\ NwcGotResponse
    /\ nwc.ret = NwcRet("paymentFailed", "INSUFFICIENT_BALANCE", "low")
    /\ nwc.attempt = "failed"

\* the wallet answered with a null error and the attempt succeeded
C24_Paid ==
    /\ NwcReturned /\ NwcGotResponse /\ nwc.got.content = "paid"
    /\ nwc.ret = NwcNil /\ nwc.attempt = "succeeded"

\* the steps of ZapNote in their order, and where each can lead
ZnAfter(p) ==
    CASE p = "idle" -> {"addr"}
      [] p = "addr" -> {"sign", "sleep", "done"}
      [] p = "sign" -> {"meta", "sleep", "done"}
      [] p = "meta" -> {"callback", "sleep", "done"}
      [] p = "callback" -> {"pay", "sleep", "done"}
      [] p = "pay" -> {"await", "sleep", "done"}
      [] p = "await" -> {"sleep", "done"}
      [] p = "sleep" -> {"addr"}
      [] OTHER -> {}

\* what an attempt has done when it is at a step, and what it has not done
\* when it failed at one
C25_State ==
    /\ zn.meta <= 1 /\ zn.callback <= 1 /\ zn.pay <= 1
    /\ zn.pc \in {"addr", "sign"} =>
          zn.zapRequest = "" /\ zn.meta = 0 /\ zn.callback = 0 /\ zn.pay = 0
    /\ zn.pc = "sign" => zn.address # <<>>
    /\ zn.pc = "meta" =>
          /\ zn.address # <<>> /\ zn.zapRequest = "signed"
          /\ zn.meta = 0 /\ zn.callback = 0 /\ zn.pay = 0
    /\ zn.pc = "callback" =>
          /\ zn.zapRequest = "signed" /\ zn.meta = 1 /\ zn.tag = "payRequest"
          /\ zn.callback = 0 /\ zn.pay = 0
    /\ zn.pc = "pay" => zn.callback = 1 /\ zn.pay = 0
    /\ (zn.pc \in {"pay", "await"} \/ zn.pay > 0 \/ zn.result = "ok") =>
          /\ zn.invoice # "" /\ zn.zapRequest = "signed" /\ zn.address # <<>>
          /\ zn.meta = 1 /\ zn.callback = 1
    /\ zn.pc \in {"sleep", "done"} =>
          /\ zn.err.kind = "noAddress" =>
                zn.zapRequest = "" /\ zn.meta = 0 /\ zn.callback = 0 /\ zn.pay = 0
          /\ zn.err.kind = "sign" => zn.meta = 0 /\ zn.callback = 0 /\ zn.pay = 0
          /\ zn.err.kind \in {"invalidTag", "outOfBounds"} => zn.callback = 0 /\ zn.pay = 0
          /\ zn.err.kind \in {"http", "lnurlError", "noInvoice"} =>
                zn.invoice = "" /\ zn.pay = 0
          /\ zn.result = "failed" => zn.err.kind # "nil"

C25_Step == zn'.pc # zn.pc => zn'.pc \in ZnAfter(zn.pc)

\* C25: within one settlement attempt the steps run in the order address,
\* signed zap request, endpoint metadata (tag and bounds), callback request,
\* pay_invoice; a step that fails ends the attempt with its error and none of
\* the later steps has run; pay_invoice is issued only with a non-empty
\* invoice obtained for a signed zap request.
C25_FixedStepOrder == [](C25_State) /\ [][C25_Step]_vars

\* the second attempt of a delivery, after the first one failed, has issued
\* pay_invoice with the invoice its callback returned
C25_Witness ==
    /\ zn.pc = "await" /\ zn.attempt = 2 /\ zn.pay = 1
    /\ zn.invoice = "lnbc1" /\ zn.zapRequest = "signed"

\* the attempt has failed with an error of kind k and has issued no
\* pay_invoice
ZnFailedWith(k) ==
    /\ zn.pc \in {"sleep", "done"} /\ zn.result # "ok"
    /\ zn.err.kind = k /\ zn.pay = 0 /\ zn.invoice = ""

\* C26: an attempt whose endpoint metadata has another tag than "payRequest"
\* fails with the invalid-tag error before the callback request; one whose
\* callback body has the status ERROR fails with the LNURL error that carries
\* the body's reason, also when the body has a payable string; one whose body
\* has no ERROR status and an empty payable string fails with the
\* empty-invoice error; none of them issues pay_invoice.
C26_NegotiationErrors ==
    /\ (zn.tag # "" /\ zn.tag # "payRequest") =>
          (ZnFailedWith("invalidTag") /\ zn.callback = 0)
    /\ zn.body.status = "ERROR" =>
          (ZnFailedWith("lnurlError") /\ zn.reason = zn.body.reason)
    /\ (zn.body.status \in {"", "OK"} /\ zn.body.pr = "") => ZnFailedWith("noInvoice")
    /\ zn.err.kind = "invalidTag" => zn.tag \in Tags \ {"payRequest"}
    /\ zn.err.kind = "lnurlError" => zn.body.status = "ERROR"
    /\ zn.err.kind = "noInvoice" => zn.body.pr = ""

\* a callback body with the status ERROR, a reason and a payable string: the
\* attempt failed with the LNURL error and that reason
C26_Witness ==
    /\ zn.body = [status |-> "ERROR", reason |-> "no route", pr |-> "lnbc1"]
    /\ ZnFailedWith("lnurlError") /\ zn.reason = "no route"

\* the endpoint announced a withdrawRequest and the attempt failed before
\* the callback request
C26_InvalidTag == zn.tag = "withdrawRequest" /\ ZnFailedWith("invalidTag")

\* the callback's body had no pr and the attempt failed with the
\* empty-invoice error
C26_EmptyInvoice == zn.body.status = "OK" /\ ZnFailedWith("noInvoice")

\* the tasks exist exactly while processEvent waits for them, and each can
\* take its next step whatever the position of the other
C27_State ==
    /\ pc = "wait" =>
          /\ zpc # "zNone"
          /\ rpc = "rNone" <=> ~cfg.reaction
    /\ (zpc \notin {"zNone", "zDone"} \/ rpc = "rReact") => pc = "wait"
    /\ rpc = "rReact" => ENABLED React(TRUE)
    /\ zpc = "zAddr" => ENABLED ZAddr(TRUE)
    /\ zpc = "zSign" => ENABLED ZSign(FALSE)
    /\ zpc = "zInvoice" => ENABLED ZInvoice(FALSE)
    /\ zpc = "zPay" => ENABLED ZPay(FALSE)
    /\ zpc = "zAwait" => ENABLED ZTimeout(FALSE)

C27_Step ==
    /\ (pc = "checkAuthor" /\ pc' = "wait") =>
          /\ zpc' = "zAddr" /\ attempt' = 1
          /\ cfg.reaction => (rpc' = "rReact" /\ rattempt' = 1)
    /\ (ledger' # ledger \/ markErr' = "io" \/ report'.zap \in {"settled", "failed"}
          \/ (pc = "wait" /\ pc' = "idle")) =>
          \/ /\ pc = "wait" /\ pc' = "idle"
             /\ zpc = "zDone"
             /\ IF cfg.reaction THEN rpc = "rDone" ELSE rpc = "rNone"
             /\ report'.zap = (IF zapSuccess THEN "settled" ELSE "failed")
             /\ cfg.reaction => report'.react = (IF reactSuccess THEN "ok" ELSE "failed")
          \/ UNCHANGED <<ledger, markErr, report>>

\* C27: when a post passes the checks, the settlement task and (with
\* reactions enabled) the reaction task are started together and each runs
\* without waiting for the other; processEvent reads zapSuccess and
\* reactSuccess, writes the ledger and returns only when both are done.
C27_TasksJoined == [](C27_State) /\ [][C27_Step]_vars

\* the settlement task is done while the reaction task still runs, and
\* processEvent waits
C27_Witness ==
    /\ pc = "wait" /\ zpc = "zDone" /\ zapSuccess /\ rpc = "rReact"
    /\ ~HasKey(ledger, cur)

\* the reaction task is done while the settlement task has not made its
\* first request
C27_ReactFirst ==
    /\ pc = "wait" /\ rpc = "rDone" /\ zpc = "zAddr" /\ attempt = 1
    /\ calls.zapNote = 0

\* C28: a failed ledger write is the only way a payment can exist without a
\* ledger entry: when the processing of a post ends and no ledger write has
\* failed in the run, a post the wallet settled a payment for has a ledger
\* entry. Stated for the first delivery of a run, before which no write was
\* made.
C28_PaidImpliesEntry ==
    (delivered = 1 /\ pc = "idle" /\ report.zap \in {"settled", "failed"}
        /\ markErr = "nil") =>
        (paidCount[cur] > 0 => HasKey(ledger, cur))

\* a delivery is reported failed after both attempts, with no ledger entry
\* for its post, and attempts run only inside a delivery's processing
C29_State ==
    /\ zpc \in {"zAddr", "zSign", "zInvoice", "zPay", "zAwait"} => pc = "wait"
    /\ (pc = "idle" /\ report.zap = "failed") =>
          /\ ~HasKey(ledger, cur)
          /\ zpc = "zDone" /\ ~zapSuccess
          /\ attempt = MaxAttempts /\ calls.zapNote = MaxAttempts

C29_Step ==
    /\ (pc = "wait" /\ pc' = "idle" /\ ~zapSuccess) =>
          (ledger' = ledger /\ report'.zap = "failed")
    /\ calls'.zapNote = calls.zapNote + 1 => (pc = "wait" /\ pc' = "wait" /\ cur' = cur)
    /\ (pc = "idle" /\ pc' # "idle") => delivered' = delivered + 1
    /\ (pc = "checkZapped" /\ report'.zap = "duplicate") => HasKey(ledger, cur)
    /\ (pc = "checkZapped" /\ pc' # pc /\ ~HasKey(ledger, cur)) =>
          (pc' = "checkDaily" \/ report'.zap = "dberror")

\* C29: when both settlement attempts of a delivery have failed, the post
\* has no ledger entry and nothing is scheduled for it: ZapNote runs only
\* inside the processing of a delivered post, and processing starts only with
\* a delivery; a later delivery of the post passes the duplicate check, as
\* only a post with a ledger entry is skipped as a duplicate.
C29_FailedPostLeftUnsettled == [](C29_State) /\ [][C29_Step]_vars

\* both attempts of a delivery have failed, its post has no entry, and the
\* same post can be delivered again
C29_Witness ==
    /\ pc = "idle" /\ report.zap = "failed" /\ calls.zapNote = 2
    /\ ~HasKey(ledger, cur) /\ paidCount[cur] = 0
    /\ ENABLED Deliver(cur, KindTextNote)

\* the keepalive's steps: a tick always goes into reconnect(), the goroutine
\* ends only at its select with botCtx done, and once ended it makes no step
C30_Step ==
    /\ (ka.pc = "wait" /\ ka'.pc # "wait") => ka'.pc \in {"newClient", "stopped"}
    /\ (ka.pc # "stopped" /\ ka'.pc = "stopped") => (botDone /\ ka.pc = "wait")
    /\ ka.pc = "stopped" => ka' = ka

\* what holds of the keepalive: the goroutine can end whenever it is at its
\* select with botCtx done
C30_KeepaliveLoop ==
    /\ [](ka.pc = "wait" /\ botDone => ENABLED KeepaliveStop)
    /\ [][C30_Step]_vars

\* C30: the keepalive reconnects at each tick and is bound to the session's
\* cancellation scope: once botCtx is done no keepalive reconnect is started.
C30_NoReconnectAfterShutdown ==
    [][botDone => ~(ka.pc = "wait" /\ ka'.pc = "newClient")]_vars

\* the start of the UTC day the clock is in
C31_DayStart == CHOOSE s \in Times : s % DayLen = 0 /\ s <= now /\ now < s + DayLen

\* the entries of today, of every author or of one
C31_Today == {r \in ledger : r.zapped_at >= C31_DayStart}
C31_TodayOf(a) == {r \in C31_Today : r.author_pubkey = a}

RECURSIVE C31_Sum(_, _)
\* the sum of amount over S, counted amount by amount
C31_Sum(S, k) ==
    IF k = 0 THEN 0
    ELSE k * Cardinality({r \in S : r.amount = k}) + C31_Sum(S, k - 1)

C31_State ==
    /\ GetTodayTotal(ledger, now) = C31_Sum(C31_Today, MaxAmount)
    /\ C31_Today = {} => GetTodayTotal(ledger, now) = 0
    /\ \A a \in Authors :
          /\ GetTodayTotalForAuthor(ledger, a, now) = C31_Sum(C31_TodayOf(a), MaxAmount)
          /\ C31_TodayOf(a) = {} => GetTodayTotalForAuthor(ledger, a, now) = 0

\* a recorded settlement adds its amount to the day's total and to its
\* author's total and to no other author's; the totals follow the stored
\* entries alone
C31_Step ==
    ledger' # ledger =>
        \E r \in ledger' \ ledger :
            /\ ledger' = ledger \cup {r}
            /\ GetTodayTotal(ledger', now') = GetTodayTotal(ledger, now) + r.amount
            /\ \A a \in Authors :
                  GetTodayTotalForAuthor(ledger', a, now') =
                      GetTodayTotalForAuthor(ledger, a, now)
                          + (IF a = r.author_pubkey THEN r.amount ELSE 0)

\* C31: after any sequence of recorded settlements GetTodayTotal is the sum
\* of amount over exactly the entries written at or after the start of the
\* current UTC day, GetTodayTotalForAuthor is that sum over the author's
\* entries, both are 0 when no entry qualifies, and no entry of an earlier day
\* is counted.
C31_TotalsOfToday == [](C31_State) /\ [][C31_Step]_vars

\* entries of two days and two authors: yesterday's entry is left out of
\* both totals, and the authors' totals differ from the day's
C31_Witness ==
    /\ dbCalls >= 3
    /\ ledger \ C31_Today # {}
    /\ C31_TodayOf("a1") # {} /\ C31_TodayOf("a2") # {}
    /\ GetTodayTotal(ledger, now) < SumAmount(ledger)
    /\ GetTodayTotalForAuthor(ledger, "a1", now) < GetTodayTotal(ledger, now)

C32_State ==
    /\ pc # "idle" => report = NoReport
    /\ (pc = "idle" /\ delivered > 0 /\ report.zap # "ignored") =>
          /\ report.zap \in {"settled", "duplicate", "budget", "failed", "dberror"}
          /\ report.zap = "settled" <=> zapSuccess
          /\ report.zap = "failed" <=> (zpc = "zDone" /\ ~zapSuccess)
          /\ report.zap \in {"duplicate", "budget", "dberror"} =>
                (zpc = "zNone" /\ rpc = "rNone" /\ report.react = "none")
          /\ report.zap = "duplicate" => HasKey(ledger, cur)

\* the report is made in the step that ends the processing, once
C32_Step ==
    /\ report' # report =>
          \/ pc = "idle" /\ delivered' = delivered + 1
          \/ pc # "idle" /\ pc' = "idle" /\ report = NoReport /\ report'.zap # "none"
    /\ (pc # "idle" /\ pc' = "idle") => report'.zap # "none"
    /\ (pc = "wait" /\ pc' = "idle" /\ zapSuccess) => report'.zap = "settled"

C32_LedgerError ==
    /\ pc = "idle" /\ report.zap = "dberror" /\ calls = NoCalls

\* the PayInvoice calls made with invoice k
C33_CallsWith(k) == {i \in DOMAIN zn.passed : zn.passed[i].inv = k}

C33_State ==
    /\ Len(zn.passed) <= MaxAttempts
    /\ \A i, j \in DOMAIN zn.passed :
          i # j => (zn.passed[i].inv # zn.passed[j].inv
                    /\ zn.passed[i].art # zn.passed[j].art)
    /\ \A i \in DOMAIN zn.passed :
          zn.passed[i].inv \in 1..zn.issued /\ zn.passed[i].art \in 1..zn.signedN
    /\ \A k \in 1..zn.issued :
          Cardinality(C33_CallsWith(k)) = IF zn.pc = "pay" /\ k = zn.inv THEN 0 ELSE 1
    /\ zn.pc = "pay" => (zn.inv = zn.issued /\ zn.art = zn.signedN /\ zn.inv > 0 /\ zn.art > 0)

C33_Step ==
    /\ zn'.passed # zn.passed =>
          /\ zn.pc = "pay"
          /\ zn'.passed = Append(zn.passed, [inv |-> zn.issued, art |-> zn.signedN])
    /\ zn'.attempt = zn.attempt + 1 =>
          /\ zn'.pc = "addr"
          /\ zn'.inv = 0 /\ zn'.art = 0 /\ zn'.invoice = "" /\ zn'.zapRequest = ""
    /\ zn'.art # zn.art /\ zn'.art # 0 =>
          (zn.pc = "sign" /\ zn'.art = zn.signedN + 1 /\ zn'.signedN = zn.signedN + 1)
    /\ zn'.inv # zn.inv /\ zn'.inv # 0 =>
          (zn.pc = "callback" /\ zn'.inv = zn.issued + 1 /\ zn'.issued = zn.issued + 1
           /\ zn.art = zn.signedN)

\* C33: every invoice fetchInvoice returned is handed to PayInvoice once,
\* in the attempt that negotiated it, and never again; the retry starts with
\* no invoice and no zap request, signs a new zap request and negotiates a new
\* invoice with it.
C33_InvoiceConsumedOnce == [](C33_State) /\ [][C33_Step]_vars

\* both attempts reached PayInvoice, each with its own invoice and zap request
C33_Witness ==
    /\ zn.attempt = 2 /\ Len(zn.passed) = 2
    /\ zn.passed[1] = [inv |-> 1, art |-> 1]
    /\ zn.passed[2] = [inv |-> 2, art |-> 2]

C34_State ==
    /\ (zpc \in {"zAddr", "zSign", "zInvoice", "zPay", "zAwait"} \/ rpc = "rReact") =>
          pc = "wait"
    /\ pc \in {"checkZapped", "checkDaily", "checkAuthor"} =>
          (zpc = "zNone" /\ rpc = "rNone" /\ req = "none" /\ ~zapSuccess
           /\ calls = NoCalls)
    /\ req # "none" => (zpc = "zAwait" /\ pc = "wait")

C34_Step ==
    /\ (cur' # cur \/ delivered' # delivered) =>
          (pc = "idle" /\ zpc \in {"zNone", "zDone"} /\ rpc \in {"rNone", "rDone"}
           /\ req = "none" /\ ledger' = ledger)
    /\ ledger' # ledger =>
          (pc = "wait" /\ pc' = "idle" /\ cur' = cur
           /\ \A r \in ledger' \ ledger : r.event_id = cur)
    /\ calls' # calls /\ calls' # NoCalls => (pc = "wait" /\ pc' = "wait" /\ cur' = cur)

\* C34: posts are processed one after another: the next post is taken only
\* when the processing of the one before is over, ledger write included; the
\* tasks of a post run only while its processEvent waits for them, so at most
\* one settlement attempt is in flight, and while a post is at its duplicate or
\* budget checks no settlement, request or unwritten success of another post
\* is pending.
C34_OneAtATime == [](C34_State) /\ [][C34_Step]_vars

\* the second post is at its daily budget check after the first post was
\* paid and recorded
C34_Witness ==
    /\ delivered = 2 /\ pc = "checkDaily"
    /\ \E e \in EventIds \ {cur} : HasKey(ledger, e) /\ paidCount[e] > 0

\* a step in which one of the three ledger checks returns an error
C35_CheckFails == CheckZapped(FALSE) \/ CheckDaily(FALSE) \/ CheckAuthor(FALSE)

C35_Step ==
    C35_CheckFails =>
        /\ pc' = "idle" /\ report'.zap = "dberror" /\ report'.react = "none"
        /\ calls = NoCalls /\ calls' = NoCalls
        /\ zpc' = "zNone" /\ rpc' = "rNone" /\ req' = "none"
        /\ UNCHANGED <<ledger, balance, paidCount, paidOn, delivered>>

C35_State ==
    (pc = "idle" /\ report.zap = "dberror") =>
        /\ calls = NoCalls /\ zpc = "zNone" /\ rpc = "rNone" /\ req = "none"
        /\ delivered < MaxDeliveries =>
              \A e \in EventIds : ENABLED Deliver(e, KindTextNote)

\* C35: when IsZapped, GetTodayTotal or GetTodayTotalForAuthor returns an
\* error the processing of the delivery ends there: no ZapNote run, no
\* pay_invoice request, no React run, no ledger write, nothing paid; and the
\* next post can be delivered and processed.
C35_FailClosed == [](C35_State) /\ [][C35_Step]_vars

\* the second delivery ended at a failed ledger check, after the first post
\* was settled and recorded
C35_Witness ==
    /\ pc = "idle" /\ report.zap = "dberror" /\ delivered = 2
    /\ ledger # {} /\ ~HasKey(ledger, cur)
    /\ ENABLED Deliver(cur, KindTextNote)

\* the post at hand has no ledger row and is within both budgets
C36_PassesChecks ==
    /\ ~HasKey(ledger, cur)
    /\ GetTodayTotal(ledger, now) + cfg.amount <= cfg.dailyLimit
    /\ GetTodayTotalForAuthor(ledger, AuthorOf(cur), now) + cfg.amount <= cfg.perNpubLimit

C36_State ==
    /\ (calls.react > 0 \/ rpc # "rNone") =>
          (cfg.reaction /\ pc \in {"wait", "idle"} /\ zpc # "zNone")
    /\ (pc = "idle" /\ report.zap \in {"ignored", "duplicate", "budget", "dberror"}) =>
          (calls.react = 0 /\ rpc = "rNone")
    /\ (pc = "idle" /\ report.zap \in {"settled", "failed"} /\ cfg.reaction) =>
          (calls.react \in 1..MaxAttempts /\ rpc = "rDone" /\ report.react # "none")

C36_Step ==
    /\ rpc = "rNone" /\ rpc' # "rNone" =>
          (pc = "checkAuthor" /\ pc' = "wait" /\ C36_PassesChecks /\ zpc' = "zAddr")
    /\ calls'.react = calls.react + 1 => (pc = "wait" /\ cur' = cur /\ ~HasKey(ledger, cur))
    /\ (pc = "checkAuthor" /\ pc' = "wait" /\ cfg.reaction) => rpc' = "rReact"

\* C36: a React run is made only for a delivery that passed the duplicate
\* check and both budget checks: a post skipped as already settled, as over
\* budget (or at a failed check) gets none, and with reactions enabled a
\* delivery that passed the checks gets its reaction attempt whether its
\* settlement succeeds or fails.
C36_ReactionOnlyAfterChecks == [](C36_State) /\ [][C36_Step]_vars

\* the settlement failed after its retry and the reaction was published
C36_Witness ==
    /\ pc = "idle" /\ report.zap = "failed" /\ report.react = "ok"
    /\ calls.react >= 1 /\ calls.zapNote = MaxAttempts

\* what holds of the wait: an event the subscription hands over ends the
\* call with that event, not with the timeout
C37_DeliveredResponseReturned ==
    [][(nwc.pc = "wait" /\ nwc'.got # NoResponseEvent) =>
          (nwc'.pc = "idle" /\ nwc'.sendErr \in {"nil", "decrypt", "parse"}
           /\ nwc'.got.e = nwc.id)]_vars

\* C37: when the wallet has published its response to the request within the
\* wait bound, also between the end of Publish and the start of the
\* subscription, the call does not end with the timeout.
C37_ResponseNotMissed ==
    (nwc.pc = "idle" /\ nwc.early = "missed") => nwc.sendErr # "timeout"

\* a step that uses c.relay: a Publish of the retry loop, or the Subscribe
C38_UsesRelay ==
    \/ nwc.pc = "publish" /\ nwc'.publishes = nwc.publishes + 1
    \/ nwc.pc = "subscribe" /\ nwc'.pc # "subscribe"

\* C38: after Connect has succeeded every Publish and every Subscribe of the
\* wallet RPC is made on a connected relay handle, also after the reconnect
\* inside the publish retry loop has failed.
C38_RelayConnectedWhenUsed == [][C38_UsesRelay => nwc.relay = "connected"]_vars

\* C39: with a configuration that Validate accepts and an empty ledger, the
\* first delivered post is not skipped as over budget: it passes both budget
\* checks and reaches the settlement attempt.
C39_FirstPostWithinBudget ==
    (delivered = 1 /\ ledger = {} /\ Validate(cfg) /\ pc = "idle") =>
        report.zap # "budget"

====
